---- MODULE Spec2Model ----
(***************************************************************************)
(* Model of the stream-ordering-and-playback core of mcp-server-hume.      *)
(*                                                                         *)
(* Part 1: DeinterleavingPlayer (deinterleaving_player.ts): the pending    *)
(* array toPlay, the playback cursor (currentGenerationId,                 *)
(* currentChunkIndex, currentIsLastChunk) and the promise chain            *)
(* currentPlayback, driven by enqueue and playNextAudio as the bun tests   *)
(* drive them, with an upstream chunk stream that ends.                    *)
(*                                                                         *)
(* Part 2: one tts session (handleTts of server.ts) with its two sinks:    *)
(* the per-generation files and registry, and the stdin audio player of    *)
(* play_audio.ts (Bun and child_process variants).                         *)
(*                                                                         *)
(* Part 3: the server across tool calls (tts, play_previous_audio).        *)
(* Part 4: the command functions of play_audio.ts applied on their own.    *)
(* Part 5: the State registry applied on its own.                          *)
(* Part 6: the chunk-per-file server of index.ts.                          *)
(* Part 7: the roleplay harness of evals/roleplay.ts.                      *)
(***************************************************************************)
EXTENDS Integers, Sequences, FiniteSets, TLC

\* ---------------------------------------------------------------- bounds
\* number of generations the upstream stream may carry
MaxGens == 3
\* largest number of chunks of one generation
MaxChunks == 2
\* number of playNextAudio calls explored
MaxCalls == 5
\* number of chunks the upstream stream delivers in one session
MaxArrivals == 4
\* number of chunks of the synthesis stream of one tts session
MaxStream == 3
\* number of tts calls and of play_previous_audio calls made to one server
MaxSessions == 2
MaxReplays == 2
\* number of chunks of the first tts call when several tool calls are followed
MaxServerStream == 1
\* number of pieces of a custom command line
MaxCommandLen == 5
\* number of addAudio calls made to one State and of distinct texts they carry
MaxAdds == 3
MaxTexts == 2
\* length the roleplay transcript may have when a turn is taken, number of
\* content blocks of one model response, and number of tool use ids
MaxTurns == 3
MaxBlocks == 2
MaxIds == 2

GenNames == <<"a", "b", "c", "d", "e", "f">>
Gens == {GenNames[n] : n \in 1..MaxGens}

\* ------------------------------------------------------------- variables
VARIABLES
  toPlay,               \* DeinterleavingPlayer.toPlay
  currentGenerationId,  \* DeinterleavingPlayer.currentGenerationId
  currentChunkIndex,    \* DeinterleavingPlayer.currentChunkIndex
  currentIsLastChunk,   \* DeinterleavingPlayer.currentIsLastChunk
  currentPlayback,      \* DeinterleavingPlayer.currentPlayback (promise chain)
  playedFilePaths,      \* the file paths handed to playAudio, in call order
  arrivals,             \* every chunk passed to enqueue, in call order
  released,             \* every chunk returned by dequeue, in call order
  heldBack,             \* chunks 0 enqueued while another generation was in progress,
                        \* each with that generation
  lastOp,               \* the most recent enqueue / playNextAudio call and its result
  calls,                \* number of playNextAudio calls made
  interleaved,          \* TRUE once an enqueue followed a playNextAudio call
  streamOpen,           \* the upstream chunk stream has not ended
  sessionResult         \* what the session returned at stream completion

\* state of one tts session (handleTts) and of the stdin audio player
VARIABLES
  quiet,                \* TTSCall.quiet
  runtime,              \* which getStdinAudioPlayer is linked: "bun" or "node"
  platform,             \* process.platform
  installed,            \* the player executables present on the execution path
  probeThrows,          \* player commands whose `which` probe throws
  stream,               \* the chunks the synthesis stream will yield
  streamStarts,         \* synthesizeJsonStreaming(request) succeeds
  pc,                   \* position of handleTts
  chunks,               \* handleTts.chunks: the chunks received so far
  files,                \* handleTts.files: generationId -> handle state
  disk,                 \* content of the files of the workdir, by path
  fileAudioData,        \* handleTts.fileAudioData: generationId -> bytes
  byGenerationId,       \* State._byGenerationId
  byFilePath,           \* State._byFilePath
  defaultAudioPlayer,   \* play_audio.ts defaultAudioPlayer (cache)
  proc,                 \* the player subprocess: state, exit code, missed exit
  stdinBuffered,        \* buffers written to proc.stdin, not yet read by the player
  stdinDelivered,       \* buffers the player has read from its standard input
  stdinEnded,           \* proc.stdin.end() was called
  sentAudio,            \* the buffers passed to audioPlayer.sendAudio, in call order
  closeState,           \* the promise of audioPlayer.close()
  outcome,              \* how handleTts ended
  effects,              \* counters: probes run, spawn calls, stream requests,
                        \* fs.open calls, tool calls
  replay,               \* the latest play_previous_audio call and its result
  input,                \* the arguments a function applied on its own was given
  result                \* what the applied function returned or did

\* state of the chunk-per-file server (index.ts) and of the roleplay harness
VARIABLES
  variant,              \* which source file's version of the handlers runs
  audioMap,             \* index.ts audioMap: generationId -> file paths
  playback,             \* the tts handler's promise chain `playback`
  played,               \* the file paths passed to playAudio, in call order
  transcript,           \* Roleplay.transcript
  roleplayResult,       \* Roleplay.result
  roleplayPc            \* the iteration of the Roleplay: running, ended, threw

indexVars == <<variant, audioMap, playback, played>>
roleplayVars == <<transcript, roleplayResult, roleplayPc>>

ttsVars == <<quiet, runtime, platform, installed, probeThrows, stream,
             streamStarts, pc, chunks,
             files, disk, fileAudioData, byGenerationId, byFilePath,
             defaultAudioPlayer, proc, stdinBuffered, stdinDelivered,
             stdinEnded, sentAudio, closeState, outcome, effects, replay,
             input, result>>

cursor == <<currentGenerationId, currentChunkIndex, currentIsLastChunk>>
player == <<toPlay, currentGenerationId, currentChunkIndex, currentIsLastChunk,
            currentPlayback>>
vars == <<toPlay, currentGenerationId, currentChunkIndex, currentIsLastChunk,
          currentPlayback, playedFilePaths, arrivals, released, heldBack,
          lastOp, calls, interleaved, streamOpen, sessionResult, ttsVars,
          indexVars, roleplayVars>>
deinterleaverVars ==
  <<toPlay, currentGenerationId, currentChunkIndex, currentIsLastChunk,
    currentPlayback, playedFilePaths, arrivals, released, heldBack,
    lastOp, calls, interleaved, streamOpen, sessionResult>>

\* ------------------------------------------------------------- data
\* the test's parseInput names a chunk file after its generation and index
FilePathOf(g, i) == <<g, i>>

Chunk(g, i, last) ==
  [generationId |-> g, chunkIndex |-> i, isLastChunk |-> last,
   filePath |-> FilePathOf(g, i)]

\* "no chunk": dequeue's null
NoChunk == [generationId |-> "", chunkIndex |-> -1, isLastChunk |-> FALSE,
            filePath |-> <<>>]
NoFile == <<>>

Range(s) == {s[k] : k \in DOMAIN s}

\* ------------------------------------------------------------- dequeue
\* the find predicate of dequeue, ignoring the in-progress generation
MatchesAnyChunkZero(el, gid, idx, isLast) ==
  \/ (el.generationId = gid /\ el.chunkIndex = idx + 1)
  \/ (el.generationId # gid /\ el.chunkIndex = 0)

\* the find predicate of dequeue, with the index test of the
\* continuation branch dropped
MatchesAnyIndex(el, gid, idx, isLast) ==
  IF ~isLast
    THEN el.generationId = gid
    ELSE el.generationId # gid /\ el.chunkIndex = 0

\* the find predicate of dequeue
Matches(el, gid, idx, isLast) ==
  IF ~isLast
    THEN el.generationId = gid /\ el.chunkIndex = idx + 1
    ELSE el.generationId # gid /\ el.chunkIndex = 0

\* Array.prototype.find: the first element of q that satisfies the predicate
Find(q, gid, idx, isLast) ==
  LET hits == {k \in DOMAIN q : Matches(q[k], gid, idx, isLast)}
  IN  IF hits = {} THEN NoChunk
      ELSE q[CHOOSE k \in hits : \A j \in hits : k <= j]

\* what dequeue returns in the current state
NextGuy == Find(toPlay, currentGenerationId, currentChunkIndex, currentIsLastChunk)

\* the pending array after dequeue returned nextGuy: find does not remove
ToPlayAfterDequeue(q, nextGuy) == q

\* no-match branch of playNextAudio that still chains a playback
NoMatchChainsPlayback ==
  /\ UNCHANGED <<toPlay, currentGenerationId, currentChunkIndex, currentIsLastChunk>>
  /\ currentPlayback' = [currentPlayback EXCEPT !.pending = Append(@, NoFile)]

\* no-match branch of dequeue / playNextAudio: return before any assignment
NoMatch ==
  UNCHANGED <<toPlay, currentGenerationId, currentChunkIndex, currentIsLastChunk,
              currentPlayback>>

\* ------------------------------------------------------------- upstream
Sent(g) == Cardinality({k \in DOMAIN arrivals : arrivals[k].generationId = g})
Finished == {g \in Gens : \E k \in DOMAIN arrivals :
                 arrivals[k].generationId = g /\ arrivals[k].isLastChunk}
Seen == {arrivals[k].generationId : k \in DOMAIN arrivals}

\* ------------------------------------------------------------- Init
\* no tts session is running
NoSession ==
  /\ quiet = FALSE
  /\ runtime = "node"
  /\ platform = "linux"
  /\ installed = {}
  /\ probeThrows = {}
  /\ stream = <<>>
  /\ streamStarts = TRUE
  /\ pc = "idle"
  /\ chunks = <<>>
  /\ files = <<>>
  /\ disk = <<>>
  /\ fileAudioData = <<>>
  /\ byGenerationId = <<>>
  /\ byFilePath = <<>>
  /\ defaultAudioPlayer = [cmd |-> "undefined", argsWithStdin |-> <<"null">>]
  /\ proc = [state |-> "none", exitCode |-> -1, exitMissed |-> FALSE]
  /\ stdinBuffered = <<>>
  /\ stdinDelivered = <<>>
  /\ stdinEnded = FALSE
  /\ sentAudio = <<>>
  /\ closeState = "idle"
  /\ outcome = [kind |-> "pending", error |-> [name |-> "", message |-> "", code |-> -1],
                content |-> <<>>]
  /\ effects = [probes |-> 0, spawns |-> 0, requests |-> 0, opens |-> 0,
                sessions |-> 0, replays |-> 0]
  /\ replay = [generationId |-> "", kind |-> "none",
               error |-> [name |-> "", message |-> "", code |-> -1],
               spawned |-> FALSE, cmd |-> <<>>, argv |-> <<>>]

\* no play_audio function is applied on its own
NoApplication == input = <<>> /\ result = <<>>

\* the chunk-per-file server is not running
NoIndexServer ==
  /\ variant = "server.ts"
  /\ audioMap = <<>>
  /\ playback = [pending |-> <<>>, playing |-> NoFile, rejected |-> FALSE]
  /\ played = <<>>

\* no roleplay is running
NoRoleplay ==
  /\ transcript = <<>>
  /\ roleplayResult = "incomplete"
  /\ roleplayPc = "idle"

\* a freshly constructed DeinterleavingPlayer
NewPlayer ==
  /\ toPlay = <<>>
  /\ currentGenerationId = ""
  /\ currentChunkIndex = 0
  /\ currentIsLastChunk = TRUE
  /\ currentPlayback = [pending |-> <<>>, playing |-> NoFile, rejected |-> FALSE]
  /\ playedFilePaths = <<>>
  /\ arrivals = <<>>
  /\ released = <<>>
  /\ heldBack = {}
  /\ lastOp = [op |-> "none", chunk |-> NoChunk, ret |-> NoChunk]
  /\ calls = 0
  /\ interleaved = FALSE
  /\ streamOpen = TRUE
  /\ sessionResult = "pending"

Init == NewPlayer /\ NoSession /\ NoApplication /\ NoIndexServer /\ NoRoleplay

\* ------------------------------------------------------------- actions
\* enqueue(generationId, isLastChunk, chunkIndex, filePath): the upstream
\* stream delivers the next chunk of generation g.  Generation ids are opaque
\* and only compared for equality, so a new generation takes the next unused
\* name.
Enqueue(g, last) ==
  LET c == Chunk(g, Sent(g), last) IN
  /\ streamOpen
  /\ Sent(g) = 0 => g = GenNames[Cardinality(Seen) + 1]
  /\ g \notin Finished
  /\ Sent(g) < MaxChunks
  /\ Len(arrivals) < MaxArrivals
  /\ toPlay' = Append(toPlay, c)
  /\ arrivals' = Append(arrivals, c)
  /\ heldBack' = IF ~currentIsLastChunk /\ c.chunkIndex = 0
                      /\ g # currentGenerationId
                   THEN heldBack \cup {[chunk |-> c, during |-> currentGenerationId]}
                   ELSE heldBack
  /\ lastOp' = [op |-> "enqueue", chunk |-> c, ret |-> NoChunk]
  /\ interleaved' = (interleaved \/ calls > 0)
  /\ UNCHANGED <<currentGenerationId, currentChunkIndex, currentIsLastChunk,
                 currentPlayback, playedFilePaths, released, calls,
                 streamOpen, sessionResult, ttsVars, indexVars,
                 roleplayVars>>

\* the cursor assignments of dequeue with the index counted up instead of
\* copied
CursorCountsUp(nextGuy) ==
  <<nextGuy.generationId, currentChunkIndex + 1, nextGuy.isLastChunk>>

\* dequeue: the cursor takes the generation id, chunk index and last-chunk
\* flag of the chunk it returns
CursorAfter(nextGuy) ==
  <<nextGuy.generationId, nextGuy.chunkIndex, nextGuy.isLastChunk>>

\* playNextAudio(): dequeue, then chain the playback of the dequeued chunk
PlayNextAudio ==
  LET nextGuy == NextGuy IN
  /\ calls < MaxCalls
  /\ calls' = calls + 1
  /\ lastOp' = [op |-> "playNext", chunk |-> NoChunk, ret |-> nextGuy]
  /\ IF nextGuy = NoChunk
       THEN /\ NoMatch
            /\ UNCHANGED released
       ELSE /\ currentGenerationId' = CursorAfter(nextGuy)[1]
            /\ currentChunkIndex' = CursorAfter(nextGuy)[2]
            /\ currentIsLastChunk' = CursorAfter(nextGuy)[3]
            /\ toPlay' = ToPlayAfterDequeue(toPlay, nextGuy)
            /\ released' = Append(released, nextGuy)
            /\ currentPlayback' =
                 [currentPlayback EXCEPT !.pending = Append(@, nextGuy.filePath)]
  /\ UNCHANGED <<playedFilePaths, arrivals, heldBack, interleaved, streamOpen,
                 sessionResult, ttsVars, indexVars,
                 roleplayVars>>

\* a then-callback that runs without waiting for the promise it was chained on
ChainReadyAtOnce(chain) == ~chain.rejected

\* a then-callback that also runs when the promise it was chained on rejected
ChainReadyAfterRejection(chain) == chain.playing = NoFile

\* promise.then(callback): the callback runs once the promise has resolved,
\* and never when it has rejected
ChainReady(chain) == chain.playing = NoFile /\ ~chain.rejected

\* the then-callback of the chain runs once the previous playback resolved:
\* playAudio(nextGuy.filePath) is called
StartPlayback ==
  /\ ChainReady(currentPlayback)
  /\ currentPlayback.pending # <<>>
  /\ currentPlayback' = [currentPlayback EXCEPT
                           !.pending = Tail(currentPlayback.pending),
                           !.playing = Head(currentPlayback.pending)]
  /\ playedFilePaths' = Append(playedFilePaths, Head(currentPlayback.pending))
  /\ UNCHANGED <<toPlay, currentGenerationId, currentChunkIndex,
                 currentIsLastChunk, arrivals, released, heldBack, lastOp,
                 calls, interleaved, streamOpen, sessionResult, ttsVars, indexVars,
                 roleplayVars>>

\* the promise returned by playAudio resolves
FinishPlayback ==
  /\ currentPlayback.playing # NoFile
  /\ currentPlayback' = [currentPlayback EXCEPT !.playing = NoFile]
  /\ UNCHANGED <<toPlay, currentGenerationId, currentChunkIndex,
                 currentIsLastChunk, playedFilePaths, arrivals, released,
                 heldBack, lastOp, calls, interleaved, streamOpen,
                 sessionResult, ttsVars, indexVars,
                 roleplayVars>>

\* the upstream stream ends: the for-await loop of handleTts exits, files and
\* player are closed and ttsSuccess is returned
StreamEnd ==
  /\ streamOpen
  /\ streamOpen' = FALSE
  /\ sessionResult' = "success"
  /\ UNCHANGED <<toPlay, currentGenerationId, currentChunkIndex,
                 currentIsLastChunk, currentPlayback, playedFilePaths,
                 arrivals, released, heldBack, lastOp, calls, interleaved,
                 ttsVars, indexVars,
                 roleplayVars>>

Next ==
  \/ \E g \in Gens, last \in BOOLEAN : Enqueue(g, last)
  \/ PlayNextAudio
  \/ StartPlayback
  \/ FinishPlayback
  \/ StreamEnd

Spec == Init /\ [][Next]_vars

\* the promise returned by playAudio rejects: currentPlayback, which was
\* chained on it, rejects, and so does every promise chained on it later
RejectPlayback ==
  /\ currentPlayback.playing # NoFile
  /\ currentPlayback' = [currentPlayback EXCEPT !.playing = NoFile,
                                                !.rejected = TRUE]
  /\ lastOp' = [op |-> "rejected", chunk |-> NoChunk, ret |-> NoChunk]
  /\ UNCHANGED <<toPlay, currentGenerationId, currentChunkIndex,
                 currentIsLastChunk, playedFilePaths, arrivals, released,
                 heldBack, calls, interleaved, streamOpen,
                 sessionResult, ttsVars, indexVars,
                 roleplayVars>>

\* the player with a playAudio whose promise may reject
NextPlayback ==
  \/ Next
  \/ RejectPlayback

SpecPlayback == Init /\ [][NextPlayback]_vars

\* ======================================================================
\* Properties of DeinterleavingPlayer
\* ======================================================================
\* a playNextAudio step
IsPlayNextStep == calls' = calls + 1

\* chunks 0 that were enqueued and never returned by dequeue
UnreleasedChunkZeros ==
  {c \in Range(arrivals) : c.chunkIndex = 0 /\ c \notin Range(released)}

\* a release sequence in which every chunk i > 0 directly follows chunk i-1 of
\* its generation and every chunk 0 is first or directly follows a last chunk
GroupedInOrder(s) ==
  \A k \in DOMAIN s :
    /\ s[k].chunkIndex > 0 =>
         /\ k > 1
         /\ s[k-1].generationId = s[k].generationId
         /\ s[k-1].chunkIndex = s[k].chunkIndex - 1
    /\ s[k].chunkIndex = 0 => (k = 1 \/ s[k-1].isLastChunk)

NoDuplicates(s) == \A i, j \in DOMAIN s : i # j => s[i] # s[j]

RECURSIVE Flatten(_)
Flatten(ss) == IF ss = <<>> THEN <<>> ELSE Head(ss) \o Flatten(Tail(ss))

IsChunkZero(c) == c.chunkIndex = 0
\* the chunks of the generation that chunk 0 "z" opens, in arrival order
ChunksOfGeneration(z) ==
  LET OfGen(c) == c.generationId = z.generationId IN SelectSeq(arrivals, OfGen)
\* the arrivals regrouped by generation, generations ordered by the arrival of
\* their chunk 0
ChunkZeroOrder ==
  LET zeros == SelectSeq(arrivals, IsChunkZero)
  IN  Flatten([k \in DOMAIN zeros |-> ChunksOfGeneration(zeros[k])])

IsPrefix(s, t) == Len(s) <= Len(t) /\ \A k \in DOMAIN s : s[k] = t[k]

\* every generation seen so far has delivered its last chunk and all
\* enqueue calls preceded the first playNextAudio call
EnqueuedThenDrained == Seen \subseteq Finished /\ ~interleaved

\* C1: when complete generations are enqueued in any interleaving and the
\* dequeue step is then called once per enqueued chunk, the released sequence
\* is a permutation of the enqueued chunks grouped by generation and in index
\* order within each generation.
C1_ReleaseIsGroupedPermutation ==
  (EnqueuedThenDrained /\ calls = Len(arrivals)) =>
     /\ Len(released) = Len(arrivals)
     /\ Range(released) = Range(arrivals)
     /\ GroupedInOrder(released)

\* C2: no chunk is ever released (played) a second time.
C2_NoChunkReleasedTwice == NoDuplicates(released)

\* C3: while a generation is in progress (currentIsLastChunk is false), a
\* dequeue step that returns a chunk returns a chunk of that generation.
C3_InProgressGenerationOnly ==
  [][(IsPlayNextStep /\ ~currentIsLastChunk /\ lastOp'.ret # NoChunk)
       => lastOp'.ret.generationId = currentGenerationId]_vars

\* C3 witness: a generation is in progress, chunk 0 of another generation is
\* pending and unreleased, and the dequeue step just returned none.
C3_Witness ==
  /\ ~currentIsLastChunk
  /\ lastOp.op = "playNext" /\ lastOp.ret = NoChunk
  /\ \E c \in UnreleasedChunkZeros :
        c \in Range(toPlay) /\ c.generationId # currentGenerationId

\* C4: in the release sequence a chunk with index i > 0 is immediately
\* preceded by chunk i-1 of its generation, and a chunk with index 0 is the
\* first release or immediately preceded by a chunk flagged last.
C4_ReleaseOrder == GroupedInOrder(released)

\* C4 witness: a generation was released up to a chunk with index > 0 and a
\* later generation was started after it.
C4_Witness ==
  \E j, k \in DOMAIN released :
    /\ j < k
    /\ released[j].chunkIndex > 0
    /\ released[k].chunkIndex = 0
    /\ released[k].generationId # released[j].generationId

\* C5: a chunk returned by the dequeue step is removed from the pending
\* queue, so the queue never holds a released chunk.
C5_ReleasedChunkRemoved == Range(toPlay) \cap Range(released) = {}

\* C6: when all chunks are enqueued before draining, generations are released
\* in the order in which their chunk 0 was enqueued.
C6_ReleasedInChunkZeroOrder ==
  EnqueuedThenDrained => IsPrefix(released, ChunkZeroOrder)

\* C7: a single-chunk generation (index 0, flagged last) enqueued while the
\* cursor is between generations, with no other chunk 0 waiting to be
\* released, is the chunk returned by the very next dequeue step.
C7_SingleChunkReleasedNext ==
  [][(/\ IsPlayNextStep
      /\ lastOp.op = "enqueue"
      /\ lastOp.chunk.chunkIndex = 0 /\ lastOp.chunk.isLastChunk
      /\ currentIsLastChunk
      /\ UnreleasedChunkZeros = {lastOp.chunk})
       => lastOp'.ret = lastOp.chunk]_vars

\* C8: the chunk 0 that was held back while a generation was in progress (the
\* only chunk 0 waiting) is the chunk returned by the first dequeue step after
\* that generation's last chunk was released.
C8_HeldBackChunkReleasedAfterLast ==
  [][(/\ IsPlayNextStep
      /\ lastOp.op = "playNext"
      /\ lastOp.ret # NoChunk /\ lastOp.ret.isLastChunk
      /\ \E h \in heldBack :
            /\ h.during = lastOp.ret.generationId
            /\ UnreleasedChunkZeros = {h.chunk})
       => \E h \in heldBack : h.during = lastOp.ret.generationId
                               /\ lastOp'.ret = h.chunk]_vars

\* C9: a dequeue step that finds no match returns none and leaves the cursor,
\* the pending queue and the playback chain as they were, starting no playback.
C9_NoMatchChangesNothing ==
  [][(IsPlayNextStep /\ lastOp'.ret = NoChunk)
       => UNCHANGED <<toPlay, currentGenerationId, currentChunkIndex,
                      currentIsLastChunk, currentPlayback, playedFilePaths>>]_vars

\* C9 witness: chunks are pending, a chunk was released before, and the
\* latest playNextAudio call found no match.
C9_Witness ==
  /\ lastOp.op = "playNext" /\ lastOp.ret = NoChunk
  /\ toPlay # <<>>
  /\ released # <<>>
  /\ ~currentIsLastChunk

\* C10: when the upstream stream has ended while the cursor is not in the
\* between-generations state, the session reports the stall instead of
\* returning a plain success.
C10_StallReportedAtStreamClose ==
  (~streamOpen /\ ~currentIsLastChunk) => sessionResult # "success"

\* the cursor value the released chunks account for
CursorOfReleased(rel) ==
  IF rel = <<>> THEN <<"", 0, TRUE>>
  ELSE <<rel[Len(rel)].generationId, rel[Len(rel)].chunkIndex,
         rel[Len(rel)].isLastChunk>>

IsEnqueueStep == arrivals' # arrivals

\* C30: the cursor is ("", 0, true) while nothing was released and otherwise
\* the generation id, chunk index and last-chunk flag of the most recently
\* released chunk; an enqueue step changes neither the cursor nor the released
\* chunks nor the playback chain.
C30_CursorIsLastReleased ==
  /\ cursor = CursorOfReleased(released)
  /\ [][/\ cursor' = CursorOfReleased(released')
        /\ IsEnqueueStep =>
             UNCHANGED <<cursor, released, currentPlayback, playedFilePaths>>]_vars

\* C30 witness: after two releases a chunk of another generation was enqueued
\* while the cursor stood inside a generation.
C30_Witness ==
  /\ Len(released) >= 2
  /\ lastOp.op = "enqueue"
  /\ lastOp.chunk.generationId # currentGenerationId
  /\ currentChunkIndex = 1

\* the file paths of the chunks returned by dequeue, in call order
ReleasedFilePaths == [k \in DOMAIN released |-> released[k].filePath]

\* a step in which playAudio is called
IsPlayAudioStep == playedFilePaths' # playedFilePaths

\* C31: playAudio is called only in a state where no playback is in
\* progress, once per step, and the file paths it was called with are the
\* file paths of the dequeued chunks in dequeue order, whatever number of
\* playNextAudio calls was made before the playbacks resolved.
C31_PlaybacksSerialized ==
  /\ [](IsPrefix(playedFilePaths, ReleasedFilePaths))
  /\ [][IsPlayAudioStep =>
          /\ currentPlayback.playing = NoFile
          /\ currentPlayback'.playing # NoFile
          /\ Len(playedFilePaths') = Len(playedFilePaths) + 1]_vars

\* C31 witness: three playNextAudio calls were made before the first playback
\* resolved, and the second playback runs while the third waits.
C31_Witness ==
  /\ Len(released) = 3
  /\ Len(playedFilePaths) = 2
  /\ currentPlayback.playing = released[2].filePath
  /\ currentPlayback.pending = <<released[3].filePath>>
  /\ ~currentPlayback.rejected

\* C35: once a playAudio promise has rejected, playAudio is never called
\* again and the chain stays rejected, while a playNextAudio call that finds a
\* chunk still moves the cursor to it and returns it.
C35_CursorAdvancesAtDequeue ==
  [][currentPlayback.rejected =>
       /\ ~IsPlayAudioStep
       /\ currentPlayback'.rejected
       /\ (IsPlayNextStep /\ NextGuy # NoChunk) =>
            /\ cursor' = CursorAfter(NextGuy)
            /\ released' = Append(released, NextGuy)
            /\ cursor' # cursor]_vars

\* C35 witness: after a playback rejected, a playNextAudio call dequeued a
\* chunk and moved the cursor to it, and the chunk was not played.
C35_Witness ==
  /\ currentPlayback.rejected
  /\ lastOp.op = "playNext"
  /\ lastOp.ret # NoChunk
  /\ cursor = CursorAfter(lastOp.ret)
  /\ Len(playedFilePaths) < Len(released)

\* ======================================================================
\* Part 2: a tts session (handleTts) and the stdin audio player
\* ======================================================================
\* a string (command name, argument, path, command line) is a sequence of
\* pieces, an argv a sequence of arguments
IsWindows == platform = "win32"

\* path.sep
Sep(isWindows) == IF isWindows THEN "\\" ELSE "/"

\* filePathOf / AudioRecord.filePath: path.join(WORKDIR, `${generationId}.wav`)
FilePathOn(isWindows, generationId) ==
  <<"workdir", Sep(isWindows), generationId, ".wav">>

\* path.replace(/\\/g, "\\\\"): every backslash becomes two
RECURSIVE DoubleBackslashes(_)
DoubleBackslashes(path) ==
  IF path = <<>> THEN <<>>
  ELSE (IF Head(path) = "\\" THEN <<"\\", "\\">> ELSE <<Head(path)>>)
         \o DoubleBackslashes(Tail(path))

\* playAudioFile: sanitizedPath
SanitizedPath(isWindows, path) ==
  IF isWindows THEN DoubleBackslashes(path) ELSE path

\* the paths an argsWithPath function is applied to
TargetPaths ==
  LET recorded == {FilePathOn(w, g) : w \in BOOLEAN, g \in Gens}
  IN  recorded \cup {DoubleBackslashes(f) : f \in recorded}
        \cup {<<"/tmp/x.wav">>, <<"-">>}

\* atEnd(...arr): (path) => [...arr, path]
AtEnd(arr) == [path \in TargetPaths |-> Append(arr, path)]

\* null argsWithStdin, the null Command, the not yet probed cache, no error
NullArgs == << <<"null">> >>
NoArgsWithPath == [path \in TargetPaths |-> <<>>]
Null == [cmd |-> <<"null">>, argsWithPath |-> NoArgsWithPath, argsWithStdin |-> NullArgs]
Undefined ==
  [cmd |-> <<"undefined">>, argsWithPath |-> NoArgsWithPath, argsWithStdin |-> NullArgs]
NoError == [name |-> "", message |-> "", code |-> -1]

\* ------------------------------------------------------------- play_audio
\* commonPlayers of findDefaultAudioPlayer_, in order of preference;
\* argsWithStdin is null for players without a stdin form
Ffplay ==
  [cmd |-> <<"ffplay">>,
   argsWithPath |-> AtEnd(<< <<"-nodisp">>, <<"-autoexit">> >>),
   argsWithStdin |-> << <<"-nodisp">>, <<"-autoexit">>, <<"-i">>, <<"-">> >>]
Mpv ==
  [cmd |-> <<"mpv">>,
   argsWithPath |-> AtEnd(<< <<"--no-video">> >>),
   argsWithStdin |-> << <<"--no-video">>, <<"-">> >>]
StdinDash(cmd) ==
  [cmd |-> <<cmd>>, argsWithPath |-> AtEnd(<< <<>> >>), argsWithStdin |-> << <<"-">> >>]
Powershell ==
  [cmd |-> <<"powershell">>,
   argsWithPath |->
     [path \in TargetPaths |->
        << <<"-c">>,
           <<"\"(New-Object Media.SoundPlayer '">> \o path \o <<"').PlaySync()\"">> >>],
   argsWithStdin |-> NullArgs]
Afplay ==
  [cmd |-> <<"afplay">>, argsWithPath |-> AtEnd(<< <<>> >>), argsWithStdin |-> NullArgs]

CommonPlayers(isWindows) ==
  IF isWindows
    THEN <<Ffplay, Mpv, StdinDash("mplayer"), Powershell>>
    ELSE <<Ffplay, StdinDash("mplayer"), Mpv, StdinDash("aplay"),
           StdinDash("play"), Afplay>>

PlayerCmds ==
  UNION {{CommonPlayers(w)[k].cmd : k \in DOMAIN CommonPlayers(w)} : w \in BOOLEAN}

\* the probe calls that throw: Bun.spawnSync throws when the check command
\* cannot be executed, child_process.spawnSync reports it in its result
ProbeThrows(rt, throws) == IF rt = "bun" THEN throws ELSE {}

\* findDefaultAudioPlayer_: the first player whose probe call does not throw
FindDefaultAudioPlayer_(isWindows, throws) ==
  LET players == CommonPlayers(isWindows)
      ok == {k \in DOMAIN players : players[k].cmd \notin throws}
  IN  IF ok = {} THEN Null
      ELSE players[CHOOSE k \in ok : \A j \in ok : k <= j]

\* findDefaultAudioPlayer that probes on every call
FindDefaultAudioPlayerUncached(cache, isWindows, throws) ==
  FindDefaultAudioPlayer_(isWindows, throws)

\* findDefaultAudioPlayer: the cached result, probing only while undefined
FindDefaultAudioPlayer(cache, isWindows, throws) ==
  IF cache = Undefined THEN FindDefaultAudioPlayer_(isWindows, throws) ELSE cache

\* the number of probing runs a findDefaultAudioPlayer call makes
ProbeRuns(cache) == IF cache = Undefined THEN 1 ELSE 0

\* the errors getStdinAudioPlayer and close() raise
NoAudioPlayerError ==
  [name |-> "Error", message |-> "No audio player found", code |-> -1]
NoStdinSupportError ==
  [name |-> "Error",
   message |-> "The audio player does not support playing from stdin", code |-> -1]
AudioPlayerError(code) ==
  [name |-> "AudioPlayerError", message |-> "Audio player exited with code",
   code |-> code]
FileSystemError(what) == [name |-> "Error", message |-> what, code |-> -1]
\* spawn of an executable that is not on the execution path
SpawnError == [name |-> "Error", message |-> "spawn ENOENT", code |-> -1]

\* playAudioFile (child_process): the player exited with a nonzero code
PlayerExitError(code) ==
  [name |-> "Error", message |-> "Audio player exited with code", code |-> code]

\* ensureAudioPlayer that lets a null command through
EnsureAudioPlayerPassesNull(command) == NoError

\* ensureAudioPlayer(command): the error thrown, if any
EnsureAudioPlayerError(command) ==
  IF command = Null THEN NoAudioPlayerError ELSE NoError

\* ensureStdinSupport that lets a command without stdin form through
EnsureStdinSupportPassesNull(command) == NoError

\* ensureStdinSupport(command): the error thrown, if any
EnsureStdinSupportError(command) ==
  IF command.argsWithStdin = NullArgs THEN NoStdinSupportError ELSE NoError

\* ensureStdinSupport(ensureAudioPlayer(command)): the error thrown, if any
ResolutionError(command) ==
  IF EnsureAudioPlayerError(command) # NoError
    THEN EnsureAudioPlayerError(command)
    ELSE EnsureStdinSupportError(command)

\* proc.stdin.write with the new buffer put ahead of the queued ones
StdinWriteAhead(buffered, buf) == <<buf>> \o buffered

\* proc.stdin.write(audioBuffer): the stream queues writes in call order
StdinWrite(buffered, buf) == Append(buffered, buf)

\* handleTts audio player selection that ignores quiet
NeverNoopPlayer == FALSE

\* handleTts: quiet selects the no-op player instead of getStdinAudioPlayer()
UsesNoopPlayer == quiet

\* ------------------------------------------------------------- files
\* filePathOf / AudioRecord.filePath on the platform of the process
TtsFilePathOf(generationId) == FilePathOn(IsWindows, generationId)

\* writeToFile that opens the file at every chunk
MustOpenAlways(fs, generationId) == TRUE

\* writeToFile: !files.has(generationId)
MustOpen(fs, generationId) == generationId \notin DOMAIN fs

\* a map with one more (or one replaced) entry
MapSet(m, k, v) == [x \in (DOMAIN m) \cup {k} |-> IF x = k THEN v ELSE m[x]]

\* fs.open(filePath, "w"): the file is created or truncated
DiskAfterOpen(d, path) == MapSet(d, path, <<>>)

\* fileHandle.write that writes every buffer of the session to one file
DiskAfterWriteToFirst(d, path, buf) ==
  LET first == CHOOSE p \in DOMAIN d : TRUE
  IN  MapSet(d, first, Append(d[first], buf))

\* fileHandle.write that is skipped in quiet sessions
DiskAfterWriteUnlessQuiet(d, path, buf) ==
  IF quiet THEN d ELSE MapSet(d, path, Append(d[path], buf))

\* fileHandle.write(audioBuffer): the bytes are appended to the handle's file
DiskAfterWrite(d, path, buf) == MapSet(d, path, Append(d[path], buf))

\* new AudioRecord(text, generationId), with what its filePath() returns; a
\* text is named by a number
AudioRecord(text, generationId) ==
  [text |-> text, generationId |-> generationId,
   filePath |-> TtsFilePathOf(generationId)]

\* addAudio that leaves the record already stored at a file path in place
ByFilePathKeepsFirst(index, text, generationId) ==
  LET record == AudioRecord(text, generationId)
  IN  IF record.filePath \in DOMAIN index THEN index
      ELSE MapSet(index, record.filePath, record)

\* State.addAudio: this._byGenerationId.set(generationId, record)
ByGenerationIdAfterAdd(registry, text, generationId) ==
  MapSet(registry, generationId, AudioRecord(text, generationId))

\* State.addAudio: this._byFilePath.set(record.filePath(), record)
ByFilePathAfterAdd(index, text, generationId) ==
  LET record == AudioRecord(text, generationId)
  IN  MapSet(index, record.filePath, record)

\* the text of the tts call in progress
CallText == effects.sessions

\* fileAudioData is an insertion-ordered Map: position of a key, 0 if absent
KeyIndex(m, k) ==
  LET hits == {i \in DOMAIN m : m[i].generationId = k}
  IN  IF hits = {} THEN 0 ELSE CHOOSE i \in hits : TRUE

\* fileAudioData update that adds an entry for every chunk
FileAudioDataPerChunk(m, g, buf) ==
  Append(m, [generationId |-> g, data |-> <<buf>>])

\* fileAudioData update that keeps only the latest buffer of a generation
FileAudioDataLatest(m, g, buf) ==
  IF KeyIndex(m, g) = 0
    THEN Append(m, [generationId |-> g, data |-> <<buf>>])
    ELSE [m EXCEPT ![KeyIndex(m, g)].data = <<buf>>]

\* fileAudioData.set(generationId, Buffer.concat([current, buf]))
FileAudioDataAfter(m, g, buf) ==
  IF KeyIndex(m, g) = 0
    THEN Append(m, [generationId |-> g, data |-> <<buf>>])
    ELSE [m EXCEPT ![KeyIndex(m, g)].data = Append(@, buf)]

\* ttsSuccess(state, fileAudioData): one text entry (and the embedded audio)
\* per entry of fileAudioData, in its iteration order
TtsSuccess(registry, m) ==
  [kind |-> "success", error |-> NoError,
   content |-> [i \in DOMAIN m |->
                  [generationId |-> m[i].generationId,
                   filePath |-> registry[m[i].generationId].filePath,
                   audio |-> m[i].data]]]

\* handleTts closes the player without waiting for the file handles
ReadyAtLoopExit == pc \in {"streaming", "closingFiles"}

\* handleTts: audioPlayer.close() is called after Promise.all(file.close())
ReadyToClosePlayer ==
  /\ pc = "closingFiles"
  /\ \A g \in DOMAIN files : files[g] = "closed"

\* ------------------------------------------------------------- upstream
\* the chunk streams of a session: generation ids in arrival order, a new
\* generation taking the next unused name, at most MaxChunks chunks each
StreamShapes ==
  {f \in UNION {[1..n -> Gens] : n \in 0..MaxStream} :
     /\ \A k \in DOMAIN f :
          \/ \E j \in 1..(k-1) : f[j] = f[k]
          \/ f[k] = GenNames[Cardinality({f[j] : j \in 1..(k-1)}) + 1]
     /\ \A g \in Gens : Cardinality({k \in DOMAIN f : f[k] = g}) <= MaxChunks}

\* the chunk records of a stream shape; audio is the payload of the chunk,
\* named after the generation and the chunk's index within it
StreamOf(f) ==
  [k \in DOMAIN f |->
     [generationId |-> f[k],
      audio |-> <<f[k], Cardinality({j \in 1..(k-1) : f[j] = f[k]})>>]]

\* ------------------------------------------------------------- Init
\* no play_previous_audio call was made
NoReplay ==
  [generationId |-> "", kind |-> "none", error |-> NoError, spawned |-> FALSE,
   cmd |-> <<>>, argv |-> <<>>]

InitTts ==
  /\ NewPlayer
  /\ quiet \in BOOLEAN
  /\ runtime \in {"bun", "node"}
  /\ platform \in {"linux", "win32"}
  /\ installed \in {PlayerCmds, {Mpv.cmd}, {}}
  /\ probeThrows \in {{}, PlayerCmds}
  /\ stream \in {StreamOf(f) : f \in StreamShapes}
  /\ streamStarts \in BOOLEAN
  /\ pc = "start"
  /\ chunks = <<>>
  /\ files = <<>>
  /\ disk = <<>>
  /\ fileAudioData = <<>>
  /\ byGenerationId = <<>>
  /\ byFilePath = <<>>
  /\ defaultAudioPlayer = Undefined
  /\ proc = [state |-> "none", exitCode |-> -1, exitMissed |-> FALSE]
  /\ stdinBuffered = <<>>
  /\ stdinDelivered = <<>>
  /\ stdinEnded = FALSE
  /\ sentAudio = <<>>
  /\ closeState = "idle"
  /\ outcome = [kind |-> "pending", error |-> NoError, content |-> <<>>]
  /\ effects = [probes |-> 0, spawns |-> 0, requests |-> 0, opens |-> 0,
                sessions |-> 1, replays |-> 0]
  /\ replay = NoReplay
  /\ NoApplication
  /\ NoIndexServer
  /\ NoRoleplay

\* ------------------------------------------------------------- actions
applyVars == <<input, result>>
envVars == <<quiet, runtime, platform, installed, probeThrows, stream, streamStarts,
             applyVars>>
storeVars == <<chunks, files, disk, fileAudioData, byGenerationId, byFilePath>>
pipeVars == <<stdinBuffered, stdinDelivered, stdinEnded, sentAudio>>

\* how a spawn of a missing executable ends the call: Bun.spawn throws; the
\* child_process emits "error", which has no listener before close() is
\* called, so the process dies of the unhandled event
SpawnFailure(rt) == IF rt = "bun" THEN "rejected" ELSE "crashed"

\* handleTts up to the stream request: the audio player is selected; a
\* non-quiet session resolves the default player and spawns it, and a
\* resolution or spawn error is thrown out of handleTts
SelectAudioPlayer ==
  /\ pc = "start"
  /\ IF UsesNoopPlayer
       THEN /\ pc' = "request"
            /\ UNCHANGED <<defaultAudioPlayer, proc, outcome, effects>>
       ELSE LET command == FindDefaultAudioPlayer(defaultAudioPlayer, IsWindows,
                                                  ProbeThrows(runtime, probeThrows))
                err == ResolutionError(command)
                probed == [effects EXCEPT !.probes = @ + ProbeRuns(defaultAudioPlayer)]
            IN  /\ defaultAudioPlayer' = command
                /\ IF err # NoError
                     THEN /\ outcome' = [kind |-> "rejected", error |-> err, content |-> <<>>]
                          /\ pc' = "done"
                          /\ proc' = proc
                          /\ effects' = probed
                     ELSE /\ effects' = [probed EXCEPT !.spawns = @ + 1]
                          /\ IF command.cmd \in installed
                               THEN /\ proc' = [state |-> "running", exitCode |-> -1,
                                                exitMissed |-> FALSE]
                                    /\ pc' = "request"
                                    /\ outcome' = outcome
                               ELSE /\ proc' = [state |-> "failed", exitCode |-> -1,
                                                exitMissed |-> FALSE]
                                    /\ pc' = "done"
                                    /\ outcome' = [kind |-> SpawnFailure(runtime),
                                                    error |-> SpawnError,
                                                    content |-> <<>>]
  /\ UNCHANGED <<envVars, storeVars, pipeVars, closeState, deinterleaverVars,
                 indexVars, roleplayVars, replay>>

\* stream = await hume.tts.synthesizeJsonStreaming(request); a failure returns
\* errorResult
RequestStream ==
  /\ pc = "request"
  /\ effects' = [effects EXCEPT !.requests = @ + 1]
  /\ IF streamStarts
       THEN pc' = "streaming" /\ outcome' = outcome
       ELSE pc' = "done" /\ outcome' = [kind |-> "errorResult", error |-> NoError, content |-> <<>>]
  /\ UNCHANGED <<envVars, storeVars, pipeVars, defaultAudioPlayer, proc,
                 closeState, deinterleaverVars, indexVars, roleplayVars, replay>>

\* one iteration of the for-await loop: sendAudio, fileAudioData, writeToFile.
\* fail names the file operation that throws, if any
ReceiveChunk(fail) ==
  /\ pc = "streaming"
  /\ Len(chunks) < Len(stream)
  /\ LET c == stream[Len(chunks) + 1]
         g == c.generationId
         buf == c.audio
         path == TtsFilePathOf(g)
         mustOpen == MustOpen(files, g)
         opened == mustOpen /\ fail # "open"
         dOpen == IF opened THEN DiskAfterOpen(disk, path) ELSE disk
     IN  /\ fail = "open" => mustOpen
         /\ chunks' = Append(chunks, c)
         /\ sentAudio' = Append(sentAudio, buf)
         /\ stdinBuffered' = IF ~UsesNoopPlayer /\ proc.state = "running"
                               THEN StdinWrite(stdinBuffered, buf)
                               ELSE stdinBuffered
         /\ fileAudioData' = FileAudioDataAfter(fileAudioData, g, buf)
         /\ files' = IF opened THEN MapSet(files, g, "open") ELSE files
         /\ byGenerationId' = IF opened
                                THEN ByGenerationIdAfterAdd(byGenerationId, CallText, g)
                                ELSE byGenerationId
         /\ byFilePath' = IF opened THEN ByFilePathAfterAdd(byFilePath, CallText, g)
                            ELSE byFilePath
         /\ disk' = IF fail = "none" THEN DiskAfterWrite(dOpen, path, buf) ELSE dOpen
         /\ IF fail = "none"
              THEN pc' = pc /\ outcome' = outcome
              ELSE /\ pc' = "done"
                   /\ outcome' = [kind |-> "rejected", error |-> FileSystemError(fail),
                                   content |-> <<>>]
         /\ effects' = [effects EXCEPT !.opens = @ + (IF mustOpen THEN 1 ELSE 0)]
  /\ UNCHANGED <<envVars, stdinDelivered, stdinEnded, defaultAudioPlayer, proc,
                 closeState, deinterleaverVars, indexVars, roleplayVars, replay>>

\* the stream is exhausted: Promise.all(files.values().map(file => file.close()))
\* calls close on every handle
StreamEnds ==
  /\ pc = "streaming"
  /\ Len(chunks) = Len(stream)
  /\ files' = [g \in DOMAIN files |-> "closing"]
  /\ pc' = "closingFiles"
  /\ UNCHANGED <<envVars, chunks, disk, fileAudioData, byGenerationId, byFilePath,
                 pipeVars, defaultAudioPlayer, proc, closeState, outcome, effects,
                 deinterleaverVars, indexVars, roleplayVars, replay>>

\* one file.close() completes
FileClosed(g) ==
  /\ pc = "closingFiles"
  /\ g \in DOMAIN files
  /\ files[g] = "closing"
  /\ files' = [files EXCEPT ![g] = "closed"]
  /\ UNCHANGED <<envVars, chunks, disk, fileAudioData, byGenerationId, byFilePath,
                 pipeVars, defaultAudioPlayer, proc, closeState, outcome, effects,
                 pc, deinterleaverVars, indexVars, roleplayVars, replay>>

\* audioPlayer.close() is called: the no-op player resolves; the stdin player
\* ends proc.stdin and waits for exit (Bun: proc.exited; child_process: the
\* "close" listener registered now)
InvokePlayerClose ==
  /\ ReadyToClosePlayer
  /\ closeState = "idle"
  /\ pc' = "closingPlayer"
  /\ IF UsesNoopPlayer
       THEN closeState' = "resolved" /\ stdinEnded' = stdinEnded
       ELSE closeState' = "awaiting" /\ stdinEnded' = TRUE
  /\ UNCHANGED <<envVars, storeVars, stdinBuffered, stdinDelivered, sentAudio,
                 defaultAudioPlayer, proc, outcome, effects, deinterleaverVars,
                 indexVars, roleplayVars, replay>>

\* the player reads the next buffer from its standard input
PlayerReads ==
  /\ proc.state = "running"
  /\ stdinBuffered # <<>>
  /\ stdinDelivered' = Append(stdinDelivered, Head(stdinBuffered))
  /\ stdinBuffered' = Tail(stdinBuffered)
  /\ UNCHANGED <<envVars, storeVars, stdinEnded, sentAudio, defaultAudioPlayer,
                 proc, closeState, outcome, effects, pc, deinterleaverVars,
                 indexVars, roleplayVars, replay>>

\* the player subprocess exits.  The child_process "close" event is emitted
\* once, to the listeners registered at that moment
PlayerExits(code) ==
  /\ proc.state = "running"
  /\ proc' = [state |-> "exited", exitCode |-> code,
              exitMissed |-> (runtime = "node" /\ closeState = "idle")]
  /\ UNCHANGED <<envVars, storeVars, pipeVars, defaultAudioPlayer, closeState,
                 outcome, effects, pc, deinterleaverVars,
                 indexVars, roleplayVars, replay>>

\* the promise of close() settles on the exit code
PlayerCloseSettles ==
  /\ closeState = "awaiting"
  /\ proc.state = "exited"
  /\ ~proc.exitMissed
  /\ closeState' = IF proc.exitCode = 0 THEN "resolved" ELSE "rejected"
  /\ UNCHANGED <<envVars, storeVars, pipeVars, defaultAudioPlayer, proc, outcome,
                 effects, pc, deinterleaverVars, indexVars, roleplayVars, replay>>

\* await audioPlayer.close() returns or throws: ttsSuccess, or the
\* AudioPlayerError leaves handleTts
FinishSession ==
  /\ pc = "closingPlayer"
  /\ closeState \in {"resolved", "rejected"}
  /\ pc' = "done"
  /\ outcome' = IF closeState = "resolved"
                  THEN TtsSuccess(byGenerationId, fileAudioData)
                  ELSE [kind |-> "rejected", error |-> AudioPlayerError(proc.exitCode),
                        content |-> <<>>]
  /\ UNCHANGED <<envVars, storeVars, pipeVars, defaultAudioPlayer, proc,
                 closeState, effects, deinterleaverVars, indexVars, roleplayVars, replay>>

NextTts ==
  \/ SelectAudioPlayer
  \/ RequestStream
  \/ \E fail \in {"none", "open", "write"} : ReceiveChunk(fail)
  \/ StreamEnds
  \/ \E g \in Gens : FileClosed(g)
  \/ InvokePlayerClose
  \/ PlayerReads
  \/ \E code \in {0, 1} : PlayerExits(code)
  \/ PlayerCloseSettles
  \/ FinishSession

SpecTts == InitTts /\ [][NextTts]_vars

\* the event loop runs every callback and continuation that is ready, and a
\* running player reads its input and exits
SpecTtsFair == SpecTts /\ WF_vars(NextTts)

\* ======================================================================
\* Part 3: the server across tool calls (tts, play_previous_audio)
\* ======================================================================
\* State.findByGenerationId: no record
NoRecord == [text |-> 0, generationId |-> "", filePath |-> <<>>]

\* State.findByGenerationId: this._byGenerationId.get(generationId) ?? null
FindByGenerationId(registry, generationId) ==
  IF generationId \in DOMAIN registry THEN registry[generationId] ELSE NoRecord

\* fs.access that never throws
AccessibleAlways(d, path) == TRUE

\* fs.access(audioRecord.filePath()) does not throw
Accessible(d, path) == path \in DOMAIN d

\* how playAudioFile settles once the player it spawned exited with code: the
\* child_process variant rejects on a nonzero code, the Bun variant returns
\* proc.exited, which resolves with any code
PlayAudioFileError(rt, code) ==
  IF rt = "node" /\ code # 0 THEN PlayerExitError(code) ELSE NoError

\* handlePlayPreviousAudio(generationId), called once the tts call before it
\* has returned; code is the exit code of the player in case one is started
PlayPreviousAudio(generationId, code) ==
  /\ pc = "done"
  /\ outcome.kind # "crashed"
  /\ effects.replays < MaxReplays
  /\ LET audioRecord == FindByGenerationId(byGenerationId, generationId)
         found == audioRecord # NoRecord /\ Accessible(disk, audioRecord.filePath)
         command == FindDefaultAudioPlayer(defaultAudioPlayer, IsWindows,
                                           ProbeThrows(runtime, probeThrows))
         argv == command.argsWithPath[SanitizedPath(IsWindows, audioRecord.filePath)]
         started == found /\ EnsureAudioPlayerError(command) = NoError
                          /\ command.cmd \in installed
         spawnCalls == IF found /\ EnsureAudioPlayerError(command) = NoError THEN 1 ELSE 0
         err == IF audioRecord = NoRecord THEN FileSystemError("No audio found")
                ELSE IF ~found THEN FileSystemError("not found")
                ELSE IF EnsureAudioPlayerError(command) # NoError
                       THEN EnsureAudioPlayerError(command)
                ELSE IF ~started THEN SpawnError
                ELSE PlayAudioFileError(runtime, code)
     IN  /\ ~started => code = 0
         /\ defaultAudioPlayer' = IF found THEN command ELSE defaultAudioPlayer
         /\ effects' = [effects EXCEPT
                          !.replays = @ + 1,
                          !.probes = @ + (IF found THEN ProbeRuns(defaultAudioPlayer) ELSE 0),
                          !.spawns = @ + spawnCalls]
         /\ replay' = [generationId |-> generationId,
                       kind |-> IF err = NoError THEN "success" ELSE "errorResult",
                       error |-> err,
                       spawned |-> started,
                       cmd |-> IF started THEN command.cmd ELSE <<>>,
                       argv |-> IF started THEN argv ELSE <<>>]
  /\ UNCHANGED <<envVars, storeVars, pipeVars, proc, closeState, outcome, pc,
                 deinterleaverVars, indexVars, roleplayVars>>

\* a recorded file is deleted from the workdir after its session ended (one
\* file at most, and only while a replay can still ask for it)
FileRemoved(path) ==
  /\ pc = "done"
  /\ effects.replays < MaxReplays
  /\ \A g \in DOMAIN byGenerationId : byGenerationId[g].filePath \in DOMAIN disk
  /\ path \in DOMAIN disk
  /\ disk' = [q \in (DOMAIN disk) \ {path} |-> disk[q]]
  /\ UNCHANGED <<envVars, chunks, files, fileAudioData, byGenerationId, byFilePath,
                 pipeVars, defaultAudioPlayer, proc, closeState, outcome, effects,
                 pc, deinterleaverVars, indexVars, roleplayVars, replay>>

\* the host changes between calls: the check command appears or disappears
EnvironmentChanges(throws) ==
  /\ pc = "done"
  /\ throws # probeThrows
  /\ probeThrows' = throws
  /\ UNCHANGED <<quiet, runtime, platform, installed, stream, streamStarts, storeVars,
                 applyVars,
                 pipeVars, defaultAudioPlayer, proc, closeState, outcome, effects,
                 pc, deinterleaverVars, indexVars, roleplayVars, replay>>

\* the next tts call arrives after the previous one returned; the calls after
\* the first carry no chunks
NewCall(q, starts) ==
  /\ pc = "done"
  /\ outcome.kind # "crashed"
  /\ effects.sessions < MaxSessions
  /\ quiet' = q
  /\ streamStarts' = starts
  /\ stream' = <<>>
  /\ pc' = "start"
  /\ chunks' = <<>>
  /\ files' = <<>>
  /\ fileAudioData' = <<>>
  /\ proc' = [state |-> "none", exitCode |-> -1, exitMissed |-> FALSE]
  /\ stdinBuffered' = <<>>
  /\ stdinDelivered' = <<>>
  /\ stdinEnded' = FALSE
  /\ sentAudio' = <<>>
  /\ closeState' = "idle"
  /\ outcome' = [kind |-> "pending", error |-> NoError, content |-> <<>>]
  /\ effects' = [effects EXCEPT !.sessions = @ + 1]
  /\ UNCHANGED <<runtime, platform, installed, probeThrows, disk, byGenerationId,
                 byFilePath, defaultAudioPlayer, deinterleaverVars,
                 indexVars, roleplayVars, replay,
                 applyVars>>

NextServer ==
  \/ NextTts
  \/ \E g \in Gens, code \in {0, 1} : PlayPreviousAudio(g, code)
  \/ \E path \in DOMAIN disk : FileRemoved(path)
  \/ \E throws \in {{}, PlayerCmds} : EnvironmentChanges(throws)
  \/ \E q \in BOOLEAN, starts \in BOOLEAN : NewCall(q, starts)

\* a started server receiving its first tts call
InitServer == InitTts /\ Len(stream) <= MaxServerStream

SpecServer == InitServer /\ [][NextServer]_vars

\* ======================================================================
\* Part 4: the command functions of play_audio applied on their own
\* ======================================================================
Placeholder == "$AUDIO_FILE"

\* the pieces custom command lines are made of
CommandPieces == {"myplayer", " ", "--in", Placeholder}

CommandLines == UNION {[1..n -> CommandPieces] : n \in 1..MaxCommandLen}

\* String.prototype.indexOf for one piece: the first position, 0 if absent
IndexOf(str, piece) ==
  LET hits == {i \in DOMAIN str : str[i] = piece}
  IN  IF hits = {} THEN 0 ELSE CHOOSE i \in hits : \A j \in hits : i <= j

\* String.prototype.includes
Includes(str, piece) == IndexOf(str, piece) # 0

\* command.split(" ")
RECURSIVE Split(_)
Split(str) ==
  LET i == IndexOf(str, " ")
  IN  IF i = 0 THEN <<str>>
      ELSE <<SubSeq(str, 1, i - 1)>> \o Split(SubSeq(str, i + 1, Len(str)))

\* arg.replace that leaves the argument as it is
ReplaceNothing(str, piece, by) == str

\* arg.replace("$AUDIO_FILE", path): a string pattern replaces the first
\* occurrence only
Replace(str, piece, by) ==
  LET i == IndexOf(str, piece)
  IN  IF i = 0 THEN str
      ELSE SubSeq(str, 1, i - 1) \o by \o SubSeq(str, i + 1, Len(str))

\* parseCustomCommand(command)
ParseCustomCommand(command) ==
  LET tokens == Split(command)
      cmd == Head(tokens)
      args == Tail(tokens)
      argsWithPath == [path \in TargetPaths |->
                         [k \in DOMAIN args |-> Replace(args[k], Placeholder, path)]]
      argsWithStdin == IF \E k \in DOMAIN args : Includes(args[k], Placeholder)
                         THEN argsWithPath[<<"-">>]
                         ELSE args
  IN  [cmd |-> cmd, argsWithPath |-> argsWithPath, argsWithStdin |-> argsWithStdin]

\* the commands the resolver can hand to ensureAudioPlayer
ResolvedCommands ==
  {Null} \cup UNION {{CommonPlayers(w)[k] : k \in DOMAIN CommonPlayers(w)} : w \in BOOLEAN}

\* what the functions are applied to: a custom command line, or else a
\* resolved default command
Inputs ==
  {[customCommand |-> line, command |-> Null] : line \in CommandLines}
    \cup {[customCommand |-> <<>>, command |-> c] : c \in ResolvedCommands}

NoResult == <<>>

InitPlayAudio ==
  /\ NewPlayer
  /\ NoSession
  /\ input \in Inputs
  /\ result = NoResult
  /\ NoIndexServer
  /\ NoRoleplay

\* customCommand ? parseCustomCommand(customCommand) : findDefaultAudioPlayer()
CommandOf(in) ==
  IF in.customCommand # <<>> THEN ParseCustomCommand(in.customCommand)
  ELSE in.command

\* parseCustomCommand(customCommand), with its argsWithPath applied to path
ApplyParseCustomCommand(path) ==
  /\ result = NoResult
  /\ input.customCommand # <<>>
  /\ LET command == ParseCustomCommand(input.customCommand)
     IN  result' = [op |-> "parseCustomCommand", command |-> command,
                    error |-> NoError, spawned |-> FALSE, path |-> path,
                    argv |-> command.argsWithPath[path]]
  /\ UNCHANGED <<input, deinterleaverVars,
                 indexVars, roleplayVars, quiet, runtime, platform, installed,
                 probeThrows, stream, streamStarts, storeVars, pipeVars,
                 defaultAudioPlayer, proc, closeState, outcome, effects, pc, replay>>

\* getStdinAudioPlayer / withStdinAudioPlayer up to the spawn:
\* ensureStdinSupport(ensureAudioPlayer(command)), then spawn(cmd, argsWithStdin)
ApplyGetStdinAudioPlayer ==
  /\ result = NoResult
  /\ LET command == CommandOf(input)
         err == ResolutionError(command)
     IN  result' = [op |-> "getStdinAudioPlayer",
                    command |-> IF err = NoError THEN command ELSE Null,
                    error |-> err, spawned |-> err = NoError, path |-> <<>>,
                    argv |-> IF err = NoError THEN command.argsWithStdin ELSE <<>>]
  /\ UNCHANGED <<input, deinterleaverVars,
                 indexVars, roleplayVars, quiet, runtime, platform, installed,
                 probeThrows, stream, streamStarts, storeVars, pipeVars,
                 defaultAudioPlayer, proc, closeState, outcome, effects, pc, replay>>

\* playAudioFile(path, customCommand) up to the spawn:
\* ensureAudioPlayer(command), then spawn(cmd, argsWithPath(path))
ApplyPlayAudioFile(path) ==
  /\ result = NoResult
  /\ LET command == CommandOf(input)
         err == EnsureAudioPlayerError(command)
     IN  result' = [op |-> "playAudioFile",
                    command |-> IF err = NoError THEN command ELSE Null,
                    error |-> err, spawned |-> err = NoError, path |-> path,
                    argv |-> IF err = NoError THEN command.argsWithPath[path] ELSE <<>>]
  /\ UNCHANGED <<input, deinterleaverVars,
                 indexVars, roleplayVars, quiet, runtime, platform, installed,
                 probeThrows, stream, streamStarts, storeVars, pipeVars,
                 defaultAudioPlayer, proc, closeState, outcome, effects, pc, replay>>

NextPlayAudio ==
  \/ ApplyParseCustomCommand(<<"/tmp/x.wav">>)
  \/ ApplyGetStdinAudioPlayer
  \/ ApplyPlayAudioFile(<<"/tmp/x.wav">>)

SpecPlayAudio == InitPlayAudio /\ [][NextPlayAudio]_vars

\* ======================================================================
\* Part 5: the State registry applied on its own
\* ======================================================================
Texts == 1..MaxTexts

\* State.findByFilePath: this._byFilePath.get(filePath) ?? null
FindByFilePath(index, filePath) ==
  IF filePath \in DOMAIN index THEN index[filePath] ELSE NoRecord

\* AudioRecord.uri
Uri(record) == <<"file://">> \o record.filePath

\* State.list: one resource per value of _byFilePath
List(index) ==
  [filePath \in DOMAIN index |->
     [name |-> index[filePath].text, uri |-> Uri(index[filePath])]]

\* a new State; input holds the addAudio calls made so far
InitState == Init

\* state.addAudio(text, generationId)
AddAudio(text, generationId) ==
  /\ pc = "idle"
  /\ Len(input) < MaxAdds
  /\ byGenerationId' = ByGenerationIdAfterAdd(byGenerationId, text, generationId)
  /\ byFilePath' = ByFilePathAfterAdd(byFilePath, text, generationId)
  /\ input' = Append(input, [text |-> text, generationId |-> generationId])
  /\ UNCHANGED <<quiet, runtime, platform, installed, probeThrows, stream,
                 streamStarts, pc, chunks, files, disk, fileAudioData,
                 defaultAudioPlayer, proc, pipeVars, closeState, outcome,
                 effects, replay, result, deinterleaverVars, indexVars, roleplayVars>>

NextState == \E text \in Texts, generationId \in Gens : AddAudio(text, generationId)

SpecState == InitState /\ [][NextState]_vars

\* ======================================================================
\* Part 6: the chunk-per-file server (index.ts): tts and play_previous_audio
\* ======================================================================
\* decimal numerals, as template literals and for-in keys print them
KeyNames == <<"0", "1", "2", "3", "4", "5">>

\* path.join(tempDir, `${generationId}-chunk-${generationIndex}.wav`)
TempFilePath(generationId, generationIndex) ==
  <<"tmpdir", "/", generationId, "-chunk-", KeyNames[generationIndex + 1], ".wav">>

\* chunks.filter(chunk => chunk.generationId === generationId).length - 1
GenerationIndex(cs, generationId) ==
  Cardinality({k \in DOMAIN cs : cs[k].generationId = generationId}) - 1

\* generationChunks ? generationChunks.push(path) : audioMap.set(generationId, [path])
AudioMapAfter(m, generationId, path) ==
  IF generationId \in DOMAIN m
    THEN [m EXCEPT ![generationId] = Append(@, path)]
    ELSE MapSet(m, generationId, <<path>>)

\* for (const fp of filePaths): the elements of the array
ForOf(arr) == arr

\* for (const filePath in filePaths): the enumerable keys of the array
ForIn(arr) == [k \in DOMAIN arr |-> <<KeyNames[k]>>]

\* the loop of play_previous_audio: for-in in index.ts, for-of in the later version
Iterated(v, arr) == IF v = "index.ts" THEN ForIn(arr) ELSE ForOf(arr)

\* a return that does not wait for the playback chain
PlaybackSettledAtOnce(chain) == TRUE

\* await playback: the chain has rejected, or every chained playback resolved
PlaybackSettled(chain) ==
  chain.rejected \/ (chain.pending = <<>> /\ chain.playing = NoFile)

\* generationIds: a Set that every chunk's generation id is added to, spread
\* into an array in insertion order
RECURSIVE GenerationIdsOf(_)
GenerationIdsOf(cs) ==
  IF cs = <<>> THEN <<>>
  ELSE LET before == GenerationIdsOf(SubSeq(cs, 1, Len(cs) - 1))
           g == cs[Len(cs)].generationId
       IN  IF \E i \in DOMAIN before : before[i] = g THEN before
           ELSE Append(before, g)

\* ttsSuccess(generationIds, text): the generation ids with audioMap.get(g)
IndexTtsSuccess(generationIds, m) ==
  [kind |-> "success", error |-> NoError,
   content |-> [i \in DOMAIN generationIds |->
                  [generationId |-> generationIds[i],
                   filePath |-> m[generationIds[i]]]]]

\* no play_previous_audio call was made
NoIndexReplay ==
  [generationId |-> "", kind |-> "none", todo |-> <<>>, playing |-> NoFile,
   played |-> <<>>, content |-> <<>>]

InitIndex ==
  /\ NewPlayer
  /\ NoApplication
  /\ NoRoleplay
  /\ variant \in {"index.ts", "part_001"}
  /\ quiet \in BOOLEAN
  /\ runtime = "node"
  /\ platform = "linux"
  /\ installed = {}
  /\ probeThrows = {}
  /\ stream \in {StreamOf(f) : f \in StreamShapes}
  /\ streamStarts \in BOOLEAN
  /\ pc = "indexRequest"
  /\ chunks = <<>>
  /\ files = <<>>
  /\ disk = <<>>
  /\ fileAudioData = <<>>
  /\ byGenerationId = <<>>
  /\ byFilePath = <<>>
  /\ defaultAudioPlayer = Undefined
  /\ proc = [state |-> "none", exitCode |-> -1, exitMissed |-> FALSE]
  /\ stdinBuffered = <<>>
  /\ stdinDelivered = <<>>
  /\ stdinEnded = FALSE
  /\ sentAudio = <<>>
  /\ closeState = "idle"
  /\ outcome = [kind |-> "pending", error |-> NoError, content |-> <<>>]
  /\ effects = [probes |-> 0, spawns |-> 0, requests |-> 0, opens |-> 0,
                sessions |-> 1, replays |-> 0]
  /\ replay = NoIndexReplay
  /\ audioMap = <<>>
  /\ playback = [pending |-> <<>>, playing |-> NoFile, rejected |-> FALSE]
  /\ played = <<>>

\* what the index.ts handlers never touch
indexFixed ==
  <<runtime, platform, installed, probeThrows, quiet, stream, streamStarts,
    files, fileAudioData, byGenerationId, byFilePath, defaultAudioPlayer, proc,
    pipeVars, closeState, applyVars, variant, deinterleaverVars, roleplayVars>>

\* for await (... of await hume.tts.synthesizeJsonStreaming(request)): a
\* failure is caught and returned as an error text
IndexRequestStream ==
  /\ pc = "indexRequest"
  /\ effects' = [effects EXCEPT !.requests = @ + 1]
  /\ IF streamStarts
       THEN pc' = "indexStreaming" /\ outcome' = outcome
       ELSE /\ pc' = "done"
            /\ outcome' = [kind |-> "errorResult", error |-> NoError, content |-> <<>>]
  /\ UNCHANGED <<indexFixed, chunks, disk, audioMap, playback, played, replay>>

\* one iteration of the loop: the chunk is written to its own file, its
\* playback is chained unless quiet, and its path is stored in audioMap;
\* fail: fs.writeFile throws, which the catch turns into an error text
IndexReceiveChunk(fail) ==
  /\ pc = "indexStreaming"
  /\ Len(chunks) < Len(stream)
  /\ LET c == stream[Len(chunks) + 1]
         received == Append(chunks, c)
         tempFilePath == TempFilePath(c.generationId,
                                      GenerationIndex(received, c.generationId))
     IN  /\ chunks' = received
         /\ IF fail
              THEN /\ pc' = "done"
                   /\ outcome' = [kind |-> "errorResult",
                                   error |-> FileSystemError("write"), content |-> <<>>]
                   /\ UNCHANGED <<disk, playback, audioMap>>
              ELSE /\ disk' = MapSet(disk, tempFilePath, <<c.audio>>)
                   /\ playback' = IF quiet THEN playback
                                  ELSE [playback EXCEPT !.pending = Append(@, tempFilePath)]
                   /\ audioMap' = AudioMapAfter(audioMap, c.generationId, tempFilePath)
                   /\ UNCHANGED <<pc, outcome>>
  /\ UNCHANGED <<indexFixed, played, effects, replay>>

\* a then-callback of the chain runs: playAudio(tempFilePath) is called
IndexStartPlayback ==
  /\ ChainReady(playback)
  /\ playback.pending # <<>>
  /\ playback' = [playback EXCEPT !.pending = Tail(playback.pending),
                                  !.playing = Head(playback.pending)]
  /\ played' = Append(played, Head(playback.pending))
  /\ UNCHANGED <<indexFixed, pc, outcome, chunks, disk, audioMap, effects, replay>>

\* exec's callback runs: ffplay exited; with an error playAudio rejects, and
\* it cannot succeed on a file that does not exist
IndexFinishPlayback(ok) ==
  /\ playback.playing # NoFile
  /\ ok => playback.playing \in DOMAIN disk
  /\ playback' = [playback EXCEPT !.playing = NoFile, !.rejected = ~ok]
  /\ UNCHANGED <<indexFixed, pc, outcome, chunks, disk, audioMap, played, effects,
                 replay>>

\* the stream is exhausted: await playback, then return ttsSuccess; a rejected
\* chain is caught and returned as an error text
IndexReturn ==
  /\ pc = "indexStreaming"
  /\ Len(chunks) = Len(stream)
  /\ PlaybackSettled(playback)
  /\ pc' = "done"
  /\ outcome' = IF playback.rejected
                  THEN [kind |-> "errorResult", error |-> PlayerExitError(1),
                        content |-> <<>>]
                  ELSE IndexTtsSuccess(GenerationIdsOf(chunks), audioMap)
  /\ UNCHANGED <<indexFixed, chunks, disk, audioMap, playback, played, effects, replay>>

\* the tts handler of index.ts
NextIndexTts ==
  \/ IndexRequestStream
  \/ \E fail \in BOOLEAN : IndexReceiveChunk(fail)
  \/ IndexStartPlayback
  \/ \E ok \in BOOLEAN : IndexFinishPlayback(ok)
  \/ IndexReturn

\* play_previous_audio up to its loop: audioMap.get, fs.access of the first file
IndexPlayPreviousAudio(generationId) ==
  /\ pc = "done"
  /\ replay.kind # "running"
  /\ effects.replays < MaxReplays
  /\ effects' = [effects EXCEPT !.replays = @ + 1]
  /\ replay' =
       IF generationId \notin DOMAIN audioMap
         THEN [NoIndexReplay EXCEPT !.generationId = generationId, !.kind = "noAudio"]
       ELSE IF audioMap[generationId][1] \notin DOMAIN disk
         THEN [NoIndexReplay EXCEPT !.generationId = generationId, !.kind = "notFound"]
       ELSE [NoIndexReplay EXCEPT !.generationId = generationId, !.kind = "running",
                                  !.todo = Iterated(variant, audioMap[generationId])]
  /\ UNCHANGED <<indexFixed, pc, outcome, chunks, disk, audioMap, playback, played>>

\* the loop of play_previous_audio calls playAudio on its next element
IndexReplayStarts ==
  /\ replay.kind = "running"
  /\ replay.playing = NoFile
  /\ replay.todo # <<>>
  /\ replay' = [replay EXCEPT !.playing = Head(replay.todo),
                              !.todo = Tail(replay.todo),
                              !.played = Append(@, Head(replay.todo))]
  /\ played' = Append(played, Head(replay.todo))
  /\ UNCHANGED <<indexFixed, pc, outcome, chunks, disk, audioMap, playback, effects>>

\* await playAudio returns: a 'Played audio' entry is pushed, and after the
\* last element the entries are returned; or it throws and the catch returns
\* the error alone
IndexReplayFinishes(ok) ==
  /\ replay.kind = "running"
  /\ replay.playing # NoFile
  /\ ok => replay.playing \in DOMAIN disk
  /\ replay' =
       IF ok
         THEN [replay EXCEPT
                 !.playing = NoFile,
                 !.content = Append(@, [generationId |-> replay.generationId,
                                        file |-> replay.playing]),
                 !.kind = IF replay.todo = <<>> THEN "success" ELSE "running"]
         ELSE [replay EXCEPT !.playing = NoFile, !.content = <<>>,
                             !.kind = "errorResult"]
  /\ UNCHANGED <<indexFixed, pc, outcome, chunks, disk, audioMap, playback, played,
                 effects>>

\* a chunk file is deleted from the temporary directory between calls (one
\* file at most)
IndexFileRemoved(path) ==
  /\ pc = "done"
  /\ replay.kind # "running"
  /\ effects.replays < MaxReplays
  /\ \A g \in DOMAIN audioMap : \A k \in DOMAIN audioMap[g] :
       audioMap[g][k] \in DOMAIN disk
  /\ path \in DOMAIN disk
  /\ disk' = [q \in (DOMAIN disk) \ {path} |-> disk[q]]
  /\ UNCHANGED <<indexFixed, pc, outcome, chunks, audioMap, playback, played,
                 effects, replay>>

NextIndex ==
  \/ NextIndexTts
  \/ \E generationId \in Gens : IndexPlayPreviousAudio(generationId)
  \/ IndexReplayStarts
  \/ \E ok \in BOOLEAN : IndexReplayFinishes(ok)
  \/ \E g \in Gens, i \in 0..(MaxChunks - 1) : IndexFileRemoved(TempFilePath(g, i))

SpecIndex == InitIndex /\ [][NextIndex]_vars

\* the tts handler in each of its versions: streaming to one player
\* (server.ts) and one file per chunk (index.ts)
NextTtsVariants ==
  \/ NextTts
  \/ NextIndexTts

SpecTtsVariants == (InitTts \/ InitIndex) /\ [][NextTtsVariants]_vars

\* ======================================================================
\* Part 7: the roleplay harness (evals/roleplay.ts)
\* ======================================================================
\* the content blocks a model response may carry: text, a use of the
\* scenario's tool (with what its handler does), of end_roleplay, of a tool
\* nobody offers, and thinking
Blocks ==
  {[type |-> "text", name |-> "", id |-> 0, handler |-> "none"],
   [type |-> "thinking", name |-> "", id |-> 0, handler |-> "none"],
   [type |-> "tool_use", name |-> "end_roleplay", id |-> 1, handler |-> "none"],
   [type |-> "tool_use", name |-> "unknown", id |-> 1, handler |-> "none"]}
  \cup {[type |-> "tool_use", name |-> "tts", id |-> i, handler |-> h] :
          i \in 1..MaxIds, h \in {"returns", "zodError", "throws"}}

Responses == UNION {[1..n -> Blocks] : n \in 0..MaxBlocks}

\* transcript entries
Spoke(speaker) == [type |-> "spoke", speaker |-> speaker, id |-> 0]
ToolUseEntry(id) == [type |-> "tool_use", speaker |-> "", id |-> id]
ToolResultEntry(id) == [type |-> "tool_result", speaker |-> "", id |-> id]

ToolUseLastError == "Unexpected: tool_use entry should never be last in transcript"

\* turn(lastTranscriptEntry): the next speaker, or the error it throws
Turn(lastTranscriptEntry) ==
  IF lastTranscriptEntry.type = "tool_use" THEN ToolUseLastError
  ELSE IF lastTranscriptEntry.type = "tool_result" THEN "agent"
  ELSE IF lastTranscriptEntry.speaker = "roleplayer" THEN "agent"
  ELSE "roleplayer"

\* the entries handleToolUse returns, and the error it throws ("" if none)
Returned(entries) == [entries |-> entries, error |-> ""]
Thrown(error) == [entries |-> <<>>, error |-> error]

\* handleToolUse that returns the tool use entry alone
HandleToolUseWithoutResult(v, block) ==
  IF block.name # "tts" THEN Thrown("Tool not found in scenario")
  ELSE Returned(<<ToolUseEntry(block.id)>>)

\* handleToolUse(block): the tool use entry and the tool result entry; a
\* ZodError of the handler gives no entry in the later version
HandleToolUse(v, block) ==
  IF block.name # "tts" THEN Thrown("Tool not found in scenario")
  ELSE IF block.handler = "returns"
    THEN Returned(<<ToolUseEntry(block.id), ToolResultEntry(block.id)>>)
  ELSE IF block.handler = "zodError" /\ v = "part_017" THEN Returned(<<>>)
  ELSE Thrown("tool handler error")

\* handleResponse: what one block adds to ret
HandleBlock(v, assistant, block) ==
  IF block.type = "text" THEN Returned(<<Spoke(assistant)>>)
  ELSE IF block.type = "tool_use"
    THEN IF assistant = "agent" THEN HandleToolUse(v, block)
         ELSE IF block.name = "end_roleplay" \/ v = "part_017" THEN Returned(<<>>)
         ELSE Thrown("Unexpected tool use block from roleplayer")
  ELSE Thrown("Unexpected: response included block of type 'thinking'")

\* handleResponse(assistant, response): the blocks are handled in order
RECURSIVE HandleResponse(_, _, _)
HandleResponse(v, assistant, response) ==
  IF response = <<>> THEN Returned(<<>>)
  ELSE LET before == HandleResponse(v, assistant, SubSeq(response, 1, Len(response) - 1))
           last == HandleBlock(v, assistant, response[Len(response)])
       IN  IF before.error # "" THEN before
           ELSE IF last.error # "" THEN last
           ELSE Returned(before.entries \o last.entries)

\* handleResponse calls this.end when it reaches an end_roleplay block of
\* the roleplayer
EndsRoleplay(v, assistant, response) ==
  /\ assistant = "roleplayer"
  /\ \E k \in DOMAIN response :
       /\ response[k].type = "tool_use"
       /\ response[k].name = "end_roleplay"
       /\ HandleResponse(v, assistant, SubSeq(response, 1, k - 1)).error = ""

\* new Roleplay(apiKey, scenario): the transcript starts with the
\* roleplayer's initial message
InitRoleplay ==
  /\ NewPlayer
  /\ NoSession
  /\ NoApplication
  /\ variant \in {"roleplay.ts", "part_017"}
  /\ audioMap = <<>>
  /\ playback = [pending |-> <<>>, playing |-> NoFile, rejected |-> FALSE]
  /\ played = <<>>
  /\ transcript = <<Spoke("roleplayer")>>
  /\ roleplayResult = "incomplete"
  /\ roleplayPc = "running"

\* one round of the iterator: next() computes the speaker, asks the model,
\* handles its response and pushes the entries; an error leaves the transcript
\* as it was, and no entries end the iteration
RoleplayNext(response) ==
  /\ roleplayPc = "running"
  /\ Len(transcript) <= MaxTurns
  /\ LET currentSpeaker == Turn(transcript[Len(transcript)])
         handled == HandleResponse(variant, currentSpeaker, response)
     IN  IF currentSpeaker = ToolUseLastError
           THEN /\ roleplayPc' = ToolUseLastError
                /\ UNCHANGED <<transcript, roleplayResult>>
           ELSE /\ roleplayResult' =
                     IF EndsRoleplay(variant, currentSpeaker, response)
                       THEN "success" ELSE roleplayResult
                /\ IF handled.error # ""
                     THEN /\ roleplayPc' = handled.error
                          /\ transcript' = transcript
                     ELSE /\ transcript' = transcript \o handled.entries
                          /\ roleplayPc' = IF handled.entries = <<>> THEN "ended"
                                           ELSE "running"
  /\ UNCHANGED <<ttsVars, indexVars, deinterleaverVars>>

NextRoleplay == \E response \in Responses : RoleplayNext(response)

SpecRoleplay == InitRoleplay /\ [][NextRoleplay]_vars

\* ======================================================================
\* Properties of the tts session and the stdin audio player
\* ======================================================================
\* the generation a payload belongs to
GenerationOf(buf) == buf[1]

\* everything written to the player's standard input, in write order
StdinWritten == stdinDelivered \o stdinBuffered

\* no chunk of another generation lies between two chunks of one generation
ContiguousByGeneration(s) ==
  \A i, j, k \in DOMAIN s :
    (i < j /\ j < k /\ GenerationOf(s[i]) = GenerationOf(s[k]))
       => GenerationOf(s[j]) = GenerationOf(s[i])

\* the payloads of generation g in a chunk sequence, in order
PayloadsOf(cs, g) ==
  LET OfGen(c) == c.generationId = g
      sel == SelectSeq(cs, OfGen)
  IN  [k \in DOMAIN sel |-> sel[k].audio]

GenerationsOf(cs) == {cs[k].generationId : k \in DOMAIN cs}

\* the generations of a chunk sequence in order of first arrival
RECURSIVE FirstArrivals(_)
FirstArrivals(cs) ==
  IF cs = <<>> THEN <<>>
  ELSE LET init == [k \in 1..(Len(cs) - 1) |-> cs[k]]
           g == cs[Len(cs)].generationId
       IN  IF g \in GenerationsOf(init) THEN FirstArrivals(init)
           ELSE Append(FirstArrivals(init), g)

AllHandlesClosed == \A g \in DOMAIN files : files[g] = "closed"

PersistenceFailed ==
  outcome.kind = "rejected" /\ outcome.error.message \in {"open", "write"}

ResolutionFailed ==
  outcome.kind = "rejected"
    /\ outcome.error \in {NoAudioPlayerError, NoStdinSupportError}

\* the close() promise is pending and its settling step is still to come
CloseWillSettle ==
  closeState = "awaiting" /\ (proc.state = "running" \/ ~proc.exitMissed)

\* handleTts has ended or can take no further step
SessionAtRest ==
  \/ pc = "done"
  \/ (pc = "closingPlayer" /\ closeState = "awaiting" /\ ~CloseWillSettle)

\* C11: in a non-quiet session the bytes written to the player's standard
\* input carry each generation's chunks contiguously, with no chunk of another
\* generation between a generation's first and last chunk.
C11_StdinGroupedByGeneration ==
  ~quiet => ContiguousByGeneration(StdinWritten)

\* C12: the bytes that reach the player's standard input are the buffers
\* passed to sendAudio in call order: what was written is a prefix of the
\* calls, and all of them while the player runs.
C12_SendPreservesCallOrder ==
  /\ IsPrefix(StdinWritten, sentAudio)
  /\ proc.state = "running" => StdinWritten = sentAudio

\* C12 witness: the player has read two buffers and a third is queued.
C12_Witness ==
  /\ Len(stdinDelivered) >= 2
  /\ stdinBuffered # <<>>
  /\ proc.state = "running"

\* C13: once the subprocess has exited and close() was called, close()
\* succeeds if the exit code is 0 and fails (with an AudioPlayerError) if it
\* is nonzero.
C13_CloseFollowsExitCode ==
  (~quiet /\ closeState # "idle" /\ proc.state = "exited" /\ ~CloseWillSettle)
    => /\ proc.exitCode = 0 => closeState = "resolved"
       /\ proc.exitCode # 0 => closeState = "rejected"
       /\ (pc = "done" /\ closeState = "rejected")
            => /\ outcome.error.name = "AudioPlayerError"
               /\ outcome.error.name # NoAudioPlayerError.name
               /\ outcome.error.name # NoStdinSupportError.name

\* C14: a quiet session never probes for a player, never spawns a subprocess,
\* writes nothing to a player, and its send and close never fail.
C14_QuietNeverTouchesPlayer ==
  quiet =>
    /\ effects.probes = 0 /\ effects.spawns = 0
    /\ defaultAudioPlayer = Undefined
    /\ proc.state = "none"
    /\ StdinWritten = <<>> /\ ~stdinEnded
    /\ closeState \in {"idle", "resolved"}
    /\ outcome.error.name # "AudioPlayerError"
    /\ ~ResolutionFailed

\* C14 witness: a quiet session on a host without any player received two
\* chunks and returned its success result.
C14_Witness ==
  /\ quiet /\ probeThrows = PlayerCmds
  /\ outcome.kind = "success"
  /\ Len(sentAudio) >= 2
  /\ closeState = "resolved"

\* what a drained stream leaves behind, whatever the playback mode: the file
\* contents, the registry records and the result
DrainedDisk(st) ==
  [path \in {TtsFilePathOf(g) : g \in GenerationsOf(st)} |->
     PayloadsOf(st, CHOOSE g \in GenerationsOf(st) : TtsFilePathOf(g) = path)]
DrainedRegistry(st) ==
  [g \in GenerationsOf(st) |->
     [text |-> CallText, generationId |-> g, filePath |-> TtsFilePathOf(g)]]
DrainedResult(st) ==
  [kind |-> "success", error |-> NoError,
   content |-> [i \in DOMAIN FirstArrivals(st) |->
                  [generationId |-> FirstArrivals(st)[i],
                   filePath |-> TtsFilePathOf(FirstArrivals(st)[i]),
                   audio |-> PayloadsOf(st, FirstArrivals(st)[i])]]]

\* C15: a session that returns success, quiet or not, has drained the whole
\* stream and leaves the file contents, registry records and result that
\* depend on the stream alone, so a quiet session leaves what a non-quiet
\* session with a working player leaves.
C15_QuietPersistsLikeNonQuiet ==
  outcome.kind = "success" =>
    /\ chunks = stream
    /\ disk = DrainedDisk(stream)
    /\ byGenerationId = DrainedRegistry(stream)
    /\ outcome = DrainedResult(stream)

\* C15 witness: a quiet session returned success for a stream of two
\* generations.
C15_Witness ==
  /\ quiet
  /\ outcome.kind = "success"
  /\ Cardinality(GenerationsOf(stream)) >= 2

\* C16: when the player's close has been invoked no file handle of the
\* session is open, and when the session has returned its success result the
\* player is closed.
C16_FilesClosedBeforePlayerClose ==
  /\ closeState # "idle" => AllHandlesClosed
  /\ outcome.kind = "success" =>
       AllHandlesClosed /\ closeState = "resolved" /\ (~quiet => stdinEnded)

\* C16 witness: the player's close was invoked in a non-quiet session that
\* had opened two files.
C16_Witness ==
  /\ ~quiet
  /\ closeState = "awaiting"
  /\ Cardinality(DOMAIN files) >= 2

\* C17: after a file open or write failure every chunk of the stream is still
\* sent to the player and the player is closed.
C17_PersistenceErrorKeepsPlayback ==
  (~quiet /\ PersistenceFailed /\ SessionAtRest)
    => /\ Len(sentAudio) = Len(stream)
       /\ closeState # "idle"

\* C18: when the player subprocess has failed (nonzero exit) and the session
\* is at rest, every chunk was appended to its file, every handle is closed
\* and the caller got the AudioPlayerError.
C18_PlaybackFailureKeepsPersistence ==
  (/\ ~quiet /\ streamStarts
   /\ proc.state = "exited" /\ proc.exitCode # 0
   /\ ~PersistenceFailed
   /\ SessionAtRest)
    => /\ chunks = stream
       /\ disk = DrainedDisk(stream)
       /\ AllHandlesClosed
       /\ outcome.kind = "rejected"
       /\ outcome.error.name = "AudioPlayerError"

\* C19: a non-quiet session whose player resolution failed has still
\* requested the stream, written every chunk and registered the generations.
C19_ResolutionErrorKeepsPersistence ==
  (~quiet /\ streamStarts /\ ResolutionFailed /\ SessionAtRest)
    => /\ effects.requests > 0
       /\ chunks = stream
       /\ disk = DrainedDisk(stream)
       /\ DOMAIN byGenerationId = GenerationsOf(stream)

\* C20: the file of each generation holds exactly that generation's payloads
\* in the order they arrived, whatever the interleaving with other
\* generations, and there is no other file.
C20_FileHoldsGenerationInArrivalOrder ==
  ~PersistenceFailed =>
    /\ DOMAIN disk = {TtsFilePathOf(g) : g \in GenerationsOf(chunks)}
    /\ \A g \in GenerationsOf(chunks) :
         disk[TtsFilePathOf(g)] = PayloadsOf(chunks, g)

\* C20 witness: a session ended with success after a chunk of one generation
\* arrived between two chunks of another.
C20_Witness ==
  /\ outcome.kind = "success"
  /\ \E i, j, k \in DOMAIN chunks :
        /\ i < j /\ j < k
        /\ chunks[i].generationId = chunks[k].generationId
        /\ chunks[j].generationId # chunks[i].generationId

\* the generations with an open file handle
OpenHandles == {g \in DOMAIN files : files[g] = "open"}

\* C21: a generation's file is opened once, at the step at which its first
\* chunk arrives, and its registry record is created at that step; while the
\* stream is consumed the open handles are those of the generations seen so
\* far, and no file is opened for a generation without a chunk.
C21_OpenedOnceAtFirstChunk ==
  /\ [](/\ DOMAIN files \subseteq GenerationsOf(chunks)
        /\ DOMAIN byGenerationId = DOMAIN files
        /\ effects.opens <= Cardinality(GenerationsOf(chunks))
        /\ pc = "streaming" =>
             /\ OpenHandles = GenerationsOf(chunks)
             /\ effects.opens = Cardinality(GenerationsOf(chunks)))
  /\ [][effects'.opens # effects.opens =>
          LET g == chunks'[Len(chunks')].generationId
          IN  /\ effects'.opens = effects.opens + 1
              /\ g \notin GenerationsOf(chunks)
              /\ g \notin DOMAIN files /\ g \notin DOMAIN byGenerationId
              /\ g \in DOMAIN files' <=> g \in DOMAIN byGenerationId']_vars

\* C21 witness: three chunks of two generations arrived and two files were
\* opened.
C21_Witness ==
  /\ pc = "streaming"
  /\ Len(chunks) = 3
  /\ Cardinality(OpenHandles) = 2
  /\ effects.opens = 2

\* the first listed player whose executable is on the execution path, or null
FirstInstalled(players, present) ==
  LET ok == {k \in DOMAIN players : players[k].cmd \in present}
  IN  IF ok = {} THEN Null
      ELSE players[CHOOSE k \in ok : \A j \in ok : k <= j]

\* C24: the resolved default player is the first entry of the platform's
\* preference list whose executable is present on the execution path, and
\* none when no listed executable is present.
C24_ResolvesFirstInstalled ==
  defaultAudioPlayer # Undefined
    => defaultAudioPlayer = FirstInstalled(CommonPlayers(IsWindows), installed)

IsReplayStep == effects'.replays = effects.replays + 1

\* the file a path names: repeated separators count as one
RECURSIVE CollapseSeparators(_)
CollapseSeparators(path) ==
  IF Len(path) < 2 THEN path
  ELSE IF path[1] = "\\" /\ path[2] = "\\" THEN CollapseSeparators(Tail(path))
  ELSE <<Head(path)>> \o CollapseSeparators(Tail(path))

\* the path handed to a player started by atEnd(...) arguments
PathArgument(argv) == argv[Len(argv)]

\* C22: play_previous_audio starts a player only for a generation id that has
\* a registry record whose file exists, and then on that generation's file
\* <workdir>/<generationId>.wav; for an unknown id or a missing file it
\* returns an error result and calls no spawn.
C22_ReplayOnlyRecordedFile ==
  [][IsReplayStep =>
       LET g == replay'.generationId
           known == g \in DOMAIN byGenerationId /\ TtsFilePathOf(g) \in DOMAIN disk
       IN  /\ replay'.spawned =>
                /\ known
                /\ byGenerationId[g].filePath = TtsFilePathOf(g)
                /\ CollapseSeparators(PathArgument(replay'.argv)) = TtsFilePathOf(g)
           /\ ~known =>
                /\ replay'.kind = "errorResult"
                /\ ~replay'.spawned
                /\ effects'.spawns = effects.spawns]_vars

\* C22 witness: after the session that recorded it returned, a generation was
\* replayed by a started player.
C22_Witness ==
  /\ replay.kind = "success"
  /\ replay.spawned
  /\ replay.generationId \in DOMAIN byGenerationId
  /\ effects.sessions = 1 /\ pc = "done"

\* C23: the probing routine runs at most once in the life of the process, and
\* once the cache holds a result (a command or null) no later resolution
\* changes it.
C23_ResolutionCachedForProcess ==
  /\ [](effects.probes <= 1)
  /\ [][defaultAudioPlayer # Undefined
          => defaultAudioPlayer' = defaultAudioPlayer]_vars

\* C23 witness: ffplay was resolved while the probes succeeded, the probes
\* then started to throw, and the second tts call has resolved and spawned
\* the cached ffplay.
C23_Witness ==
  /\ runtime = "bun" /\ probeThrows = PlayerCmds
  /\ defaultAudioPlayer = Ffplay
  /\ effects.sessions = 2 /\ ~quiet
  /\ pc = "request" /\ proc.state = "running"
  /\ effects.probes = 1

\* a step in which getStdinAudioPlayer or playAudioFile resolves the player
ResolvesInStep ==
  \/ pc = "start" /\ ~quiet /\ pc' # pc
  \/ IsReplayStep /\ replay'.error.message \notin {"No audio found", "not found"}

\* C28: when the resolved player is null, getStdinAudioPlayer and playAudioFile
\* raise the no-audio-player error without calling spawn, and the tool call
\* ends as an error: the tts call is rejected, play_previous_audio returns an
\* error result.
C28_NoPlayerFailsBeforeSpawn ==
  [][(ResolvesInStep /\ defaultAudioPlayer' = Null) =>
       /\ effects'.spawns = effects.spawns
       /\ IF IsReplayStep
            THEN /\ replay'.kind = "errorResult"
                 /\ replay'.error = NoAudioPlayerError
                 /\ ~replay'.spawned
            ELSE /\ outcome'.kind = "rejected"
                 /\ outcome'.error = NoAudioPlayerError
                 /\ proc'.state = "none"]_vars

\* C28 witness: a quiet session recorded a generation and the replay of it
\* ended with the no-audio-player error.
C28_Witness ==
  /\ replay.kind = "errorResult"
  /\ replay.error = NoAudioPlayerError
  /\ replay.generationId \in DOMAIN byGenerationId
  /\ effects.spawns = 0

\* ======================================================================
\* Properties of the command functions
\* ======================================================================
\* the tokens after the executable of the parsed command line
ArgumentsOf(line) == Tail(Split(line))

HasPlaceholder(line) ==
  \E k \in DOMAIN ArgumentsOf(line) : Includes(ArgumentsOf(line)[k], Placeholder)

\* C25: for a custom command line without the placeholder the stdin argv is
\* the literal argument list and the path argv is the literal argument list
\* with the target path appended as the last argument.
C25_NoPlaceholderAppendsPath ==
  (result # NoResult /\ result.op = "parseCustomCommand"
     /\ ~HasPlaceholder(input.customCommand))
    => /\ result.command.argsWithStdin = ArgumentsOf(input.customCommand)
       /\ result.argv = Append(ArgumentsOf(input.customCommand), result.path)

\* an argument with its first placeholder replaced
Substituted(arg, by) ==
  LET i == CHOOSE n \in DOMAIN arg :
             arg[n] = Placeholder /\ \A m \in 1..(n - 1) : arg[m] # Placeholder
  IN  [n \in 1..(i - 1) |-> arg[n]] \o by
        \o [n \in 1..(Len(arg) - i) |-> arg[i + n]]

\* C26: for a custom command line with the placeholder the executable is the
\* first space-separated token and the remaining tokens are the arguments, in
\* order; in the path argv the placeholder of every argument that contains it
\* (its first occurrence in the argument) is replaced by the target path, in
\* the stdin argv by "-", and the other arguments are unchanged; "myplayer
\* --in $AUDIO_FILE" gives ["--in", "/tmp/x.wav"] and ["--in", "-"].
C26_PlaceholderSubstituted ==
  (result # NoResult /\ result.op = "parseCustomCommand"
     /\ HasPlaceholder(input.customCommand))
    => LET args == ArgumentsOf(input.customCommand)
           stdinArgv == result.command.argsWithStdin
       IN  /\ result.command.cmd = Head(Split(input.customCommand))
           /\ Len(result.argv) = Len(args) /\ Len(stdinArgv) = Len(args)
           /\ \A k \in DOMAIN args :
                IF Includes(args[k], Placeholder)
                  THEN /\ result.argv[k] = Substituted(args[k], result.path)
                       /\ stdinArgv[k] = Substituted(args[k], <<"-">>)
                  ELSE /\ result.argv[k] = args[k]
                       /\ stdinArgv[k] = args[k]
           /\ input.customCommand = <<"myplayer", " ", "--in", " ", Placeholder>>
                => /\ result.argv = << <<"--in">>, <<"/tmp/x.wav">> >>
                   /\ stdinArgv = << <<"--in">>, <<"-">> >>

\* C26 witness: "myplayer --in $AUDIO_FILE" was parsed.
C26_Witness ==
  /\ result # NoResult
  /\ result.op = "parseCustomCommand"
  /\ input.customCommand = <<"myplayer", " ", "--in", " ", Placeholder>>

\* C27: getStdinAudioPlayer on a command without stdin form (argsWithStdin
\* null) raises the does-not-support-stdin error and spawns nothing; on a
\* command with a stdin form it spawns that command, unchanged, with its
\* stdin arguments.
C27_NoStdinFormFails ==
  (result # NoResult /\ result.op = "getStdinAudioPlayer"
     /\ CommandOf(input) # Null)
    => IF CommandOf(input).argsWithStdin = NullArgs
         THEN result.error = NoStdinSupportError /\ ~result.spawned
         ELSE /\ result.error = NoError
              /\ result.spawned
              /\ result.command = CommandOf(input)
              /\ result.argv = CommandOf(input).argsWithStdin

\* C27 witness: getStdinAudioPlayer was applied to powershell.
C27_Witness ==
  /\ result # NoResult
  /\ result.op = "getStdinAudioPlayer"
  /\ input.command = Powershell
  /\ result.error = NoStdinSupportError

\* ======================================================================
\* Properties of the end of a tts session
\* ======================================================================
\* C33: whenever close() of the stdin player is pending and the player
\* subprocess has exited, close() eventually settles, also when the exit
\* came before close() was called.
C33_CloseSettlesAfterExit ==
  [](( closeState = "awaiting" /\ proc.state = "exited")
       => <>(closeState \in {"resolved", "rejected"}))

\* the player subprocess of the session was spawned
PlayerSpawned == proc.state \in {"running", "exited"}

\* C34: when handleTts has ended, in whichever way, every file handle it
\* opened is closed and the input of the player it spawned has been ended.
C34_NothingLeftOpen ==
  pc = "done" => /\ AllHandlesClosed
                 /\ PlayerSpawned => stdinEnded

\* the chunks written so far to the file of a generation
FileBytes(g) ==
  IF TtsFilePathOf(g) \in DOMAIN disk THEN disk[TtsFilePathOf(g)] ELSE <<>>

Registered == {input[k].generationId : k \in DOMAIN input}

\* the record of the latest addAudio call for a generation
LatestRecord(generationId) ==
  LET k == CHOOSE k \in DOMAIN input :
             /\ input[k].generationId = generationId
             /\ \A j \in DOMAIN input : input[j].generationId = generationId => j <= k
  IN  AudioRecord(input[k].text, generationId)

\* C38: after any sequence of addAudio calls, findByGenerationId finds a
\* record exactly for the registered generations, findByFilePath finds the
\* same record at its file path, every record found by file path is found
\* by its generation id, and list() has one resource per registered
\* generation.
C38_IndexesConsistent ==
  /\ \A g \in Gens :
       LET record == FindByGenerationId(byGenerationId, g)
       IN  IF g \in Registered
             THEN /\ record = LatestRecord(g)
                  /\ FindByFilePath(byFilePath, record.filePath) = record
             ELSE /\ record = NoRecord
                  /\ FindByFilePath(byFilePath, TtsFilePathOf(g)) = NoRecord
  /\ \A filePath \in DOMAIN byFilePath :
       FindByGenerationId(byGenerationId, byFilePath[filePath].generationId)
         = byFilePath[filePath]
  /\ Cardinality(DOMAIN List(byFilePath)) = Cardinality(Registered)
  /\ \A g \in Registered :
       Cardinality({filePath \in DOMAIN byFilePath :
                      List(byFilePath)[filePath].uri = Uri(LatestRecord(g))}) = 1

\* C38 witness: addAudio was called twice for one generation with different
\* texts, and once for another generation.
C38_Witness ==
  /\ Len(input) = 3
  /\ Cardinality(Registered) = 2
  /\ input[1].generationId = input[3].generationId
  /\ input[1].text # input[3].text

\* ======================================================================
\* Properties of the chunk-per-file server
\* ======================================================================
\* the chunk files of the session in the order of their chunks
ChunkFilePaths ==
  [k \in DOMAIN chunks |->
     TempFilePath(chunks[k].generationId,
                  GenerationIndex(SubSeq(chunks, 1, k), chunks[k].generationId))]

\* C32: a non-quiet tts call that has returned its success result has no
\* playback left: in the streaming version the player subprocess has exited,
\* in the chunk-per-file version playAudio was called for every chunk file
\* and none of the playbacks is running or waiting.
C32_SuccessAfterPlayback ==
  (pc = "done" /\ ~quiet /\ outcome.kind = "success") =>
    IF variant = "server.ts"
      THEN proc.state = "exited"
      ELSE /\ playback.playing = NoFile
           /\ playback.pending = <<>>
           /\ played = ChunkFilePaths

\* C32 witness: a non-quiet chunk-per-file session of three chunks returned
\* its success result.
C32_Witness ==
  /\ variant # "server.ts"
  /\ pc = "done"
  /\ ~quiet
  /\ outcome.kind = "success"
  /\ Len(chunks) = 3

\* C36: play_previous_audio calls playAudio on the stored chunk files of the
\* generation in the order they were stored, one after the other, and its
\* success result has one 'Played audio' entry per stored file.
C36_ReplayPlaysStoredFiles ==
  replay.kind \in {"running", "success", "errorResult"} =>
    LET stored == audioMap[replay.generationId]
    IN  /\ IsPrefix(replay.played, stored)
        /\ replay.kind = "success" =>
             /\ replay.played = stored
             /\ replay.content =
                  [k \in DOMAIN stored |->
                     [generationId |-> replay.generationId, file |-> stored[k]]]

\* ======================================================================
\* Properties of the roleplay harness
\* ======================================================================
\* C39: every tool_use entry of the transcript is directly followed by the
\* tool_result entry with its id, so the transcript never ends with a
\* tool_use entry and turn() never throws its tool_use error.
C39_ToolUseNeverLast ==
  /\ roleplayPc # ToolUseLastError
  /\ \A k \in DOMAIN transcript :
       transcript[k].type = "tool_use" =>
         /\ k < Len(transcript)
         /\ transcript[k + 1] = ToolResultEntry(transcript[k].id)

\* C39 witness: the agent used the tool in two responses in a row, the turn
\* after the first being computed from its tool_result entry, and spoke after
\* the second use.
C39_Witness ==
  /\ Len(transcript) >= 6
  /\ transcript[2].type = "tool_use"
  /\ transcript[4].type = "tool_use"
  /\ transcript[4].id # transcript[2].id
  /\ transcript[Len(transcript)].type = "spoke"

====
